---- MODULE Spec2Model ----
(***************************************************************************)
(* Partial witness generator (ACVM) of acvm: the opcode solve loop, the    *)
(* foreign-call queue, the witness map and the Brillig VM it runs.         *)
(*                                                                         *)
(* Spec is the session state machine: ACVM::new gives Init, and solve,     *)
(* resolve_pending_foreign_call and finalize are the actions.  solve() is  *)
(* one action: its rounds are computed by the recursive operators          *)
(* SolveRound / SolveLoop exactly in the order of the Rust loop.           *)
(***************************************************************************)
EXTENDS Integers, Sequences, FiniteSets, TLC

\* ---------------------------------------------------------------- bounds
\* longest circuit handed to ACVM::new
MaxOpcodes == 3
\* number of API calls (solve / resolve / finalize) made on one session
MaxCalls == 5
\* rounds of one solve() call after which the call is reported as still
\* looping
MaxRounds == 8

\* ------------------------------------------------------- field elements
\* FieldElement: residues modulo a (small) prime
FieldModulus == 11
Field == 0 .. (FieldModulus - 1)

FAdd(a, b) == (a + b) % FieldModulus
FMul(a, b) == (a * b) % FieldModulus
FNeg(a) == (FieldModulus - a) % FieldModulus
FSub(a, b) == FAdd(a, FNeg(b))
\* inverse of a non-zero element
FInv(a) == CHOOSE x \in Field : FMul(a, x) = 1
FDiv(a, b) == FMul(a, FInv(b))

\* ------------------------------------------------------------ witnesses
\* Witness(u32): the witness indices used by the circuits of the model
Witnesses == 1 .. 3
\* an absent entry of the WitnessMap
NoValue == -1

\* WitnessMap: Witness -> FieldElement, NoValue where there is no entry
EmptyWitnessMap == [w \in Witnesses |-> NoValue]
contains_key(witness_map, w) == witness_map[w] # NoValue

\* ------------------------------------------------------------ results
\* Result<(), OpcodeResolutionError> and the error / stall values
UnsatisfiedConstrain == [tag |-> "UnsatisfiedConstrain"]
BrilligFunctionFailed(message) == [tag |-> "BrilligFunctionFailed", message |-> message]
MissingAssignment(w) == [tag |-> "MissingAssignment", w |-> w]
ExpressionHasTooManyUnknowns(expr) == [tag |-> "ExpressionHasTooManyUnknowns", expr |-> expr]
OpcodeNotSolvableErr(reason) == [tag |-> "OpcodeNotSolvable", reason |-> reason]

\* OpcodeResolution, with the Err arm of the Result folded in
ResSolved == [tag |-> "Solved"]
ResInProgress == [tag |-> "InProgress"]
ResStalled(reason) == [tag |-> "Stalled", reason |-> reason]
ResInProgressBrillig(info) == [tag |-> "InProgressBrillig", info |-> info]
ResErr(err) == [tag |-> "Err", err |-> err]

\* ---------------------------------------------------------- insert_value
\* variant that never reports a conflict
insert_value_unchecked(witness, value_to_insert, initial_witness) ==
    [witness_map |-> [initial_witness EXCEPT ![witness] = value_to_insert],
     ok |-> TRUE]

\* insert_value: HashMap::insert first (the map now holds value_to_insert),
\* then the old value, if there was one, is compared with the new one
insert_value(witness, value_to_insert, initial_witness) ==
    LET optional_old_value == initial_witness[witness]
        inserted == [initial_witness EXCEPT ![witness] = value_to_insert]
    IN  IF optional_old_value = NoValue
        THEN [witness_map |-> inserted, ok |-> TRUE]
        ELSE IF optional_old_value # value_to_insert
             THEN [witness_map |-> inserted, ok |-> FALSE]
             ELSE [witness_map |-> inserted, ok |-> TRUE]

\* ---------------------------------------------------------- expressions
\* Expression: q_c + sum of coef * witness (linear_combinations)
Term(coef, w) == [coef |-> coef, w |-> w]
Expr(q_c, terms) == [q_c |-> q_c, linear_combinations |-> terms]

RECURSIVE SumKnown(_, _, _)
\* sum of coef * value over the terms i.. whose witness is assigned
SumKnown(terms, i, witness_map) ==
    IF i > Len(terms) THEN 0
    ELSE LET t == terms[i]
             rest == SumKnown(terms, i + 1, witness_map)
         IN  IF contains_key(witness_map, t.w)
             THEN FAdd(FMul(t.coef, witness_map[t.w]), rest)
             ELSE rest

\* ArithmeticSolver::evaluate: substitute the known witnesses
evaluate(expr, witness_map) ==
    Expr(FAdd(expr.q_c, SumKnown(expr.linear_combinations, 1, witness_map)),
         SelectSeq(expr.linear_combinations,
                   LAMBDA t : ~contains_key(witness_map, t.w)))

\* Expression::to_const: the constant when no term is left
is_const(expr) == Len(expr.linear_combinations) = 0

\* ArithmeticSolver::any_witness_from_expression: the first witness named
any_witness_from_expression(expr) == expr.linear_combinations[1].w

\* the match on expr.to_const() in get_value, e being the evaluated expr
const_or_missing(e) ==
    IF is_const(e)
    THEN [ok |-> TRUE, value |-> e.q_c, reason |-> MissingAssignment(0)]
    ELSE [ok |-> FALSE, value |-> 0,
          reason |-> MissingAssignment(any_witness_from_expression(e))]

\* get_value: the constant value of expr under the map, or the stall reason
get_value(expr, initial_witness) == const_or_missing(evaluate(expr, initial_witness))

\* the map and the resolution after an insert_value(..)? of a sub-solver
after_insert(ins) ==
    [witness_map |-> ins.witness_map,
     resolution |-> IF ins.ok THEN ResSolved ELSE ResErr(UnsatisfiedConstrain)]

\* variant that assigns c/a to the unknown
solve_evaluated_unnegated(initial_witness, e) ==
    IF is_const(e)
    THEN [witness_map |-> initial_witness,
          resolution |-> IF e.q_c = 0 THEN ResSolved
                         ELSE ResErr(UnsatisfiedConstrain)]
    ELSE IF Len(e.linear_combinations) = 1 /\ e.linear_combinations[1].coef # 0
    THEN after_insert(insert_value(e.linear_combinations[1].w,
                          FDiv(e.q_c, e.linear_combinations[1].coef),
                          initial_witness))
    ELSE [witness_map |-> initial_witness,
          resolution |-> ResStalled(ExpressionHasTooManyUnknowns(e))]

\* ArithmeticSolver::solve on the evaluated expression e: constant =>
\* satisfied or not; one unknown with a non-zero coefficient => assign it;
\* otherwise too many unknowns
solve_evaluated(initial_witness, e) ==
    IF is_const(e)
    THEN [witness_map |-> initial_witness,
          resolution |-> IF e.q_c = 0 THEN ResSolved
                         ELSE ResErr(UnsatisfiedConstrain)]
    ELSE IF Len(e.linear_combinations) = 1 /\ e.linear_combinations[1].coef # 0
    THEN after_insert(insert_value(e.linear_combinations[1].w,
                          FNeg(FDiv(e.q_c, e.linear_combinations[1].coef)),
                          initial_witness))
    ELSE [witness_map |-> initial_witness,
          resolution |-> ResStalled(ExpressionHasTooManyUnknowns(e))]

\* ArithmeticSolver::solve
ArithmeticSolver_solve(initial_witness, expr) ==
    solve_evaluated(initial_witness, evaluate(expr, initial_witness))

\* ------------------------------------------------------------ Brillig VM
\* RegisterIndex values used by the bytecode of the model
RegisterIndices == 0 .. 2

\* Registers: every register reads as zero until it is set
EmptyRegisters == [r \in RegisterIndices |-> 0]
registers_get(registers, index) == registers[index]
registers_set(registers, index, value) == [registers EXCEPT ![index] = value]

\* Memory: dense vector of values; address a is element a + 1
RECURSIVE Zeros(_)
Zeros(n) == IF n <= 0 THEN <<>> ELSE Append(Zeros(n - 1), 0)

\* Memory::read: cells past the end read as zero
memory_read(memory, ptr) == IF ptr + 1 <= Len(memory) THEN memory[ptr + 1] ELSE 0

\* Memory::read_slice: len cells from ptr
memory_read_slice(memory, ptr, len) == [k \in 1 .. len |-> memory_read(memory, ptr + k - 1)]

\* Memory::write_slice: the vector is extended with zeros up to ptr + |values|
memory_write_slice(memory, ptr, values) ==
    LET newlen == IF ptr + Len(values) > Len(memory) THEN ptr + Len(values) ELSE Len(memory)
    IN  [k \in 1 .. newlen |->
            IF k > ptr /\ k <= ptr + Len(values) THEN values[k - ptr]
            ELSE IF k <= Len(memory) THEN memory[k] ELSE 0]

\* Memory::write: one cell
memory_write(memory, ptr, value) == memory_write_slice(memory, ptr, <<value>>)

\* VMStatus
VMFinished == [tag |-> "Finished"]
VMInProgress == [tag |-> "InProgress"]
VMFailure(message) == [tag |-> "Failure", message |-> message]
VMForeignCallWait(function, inputs) ==
    [tag |-> "ForeignCallWait", function |-> function, inputs |-> inputs]
\* a Rust panic (unreachable!, index out of bounds) unwinding out of the VM
VMPanic == [tag |-> "Panic"]

\* ForeignCallOutput and ForeignCallResult
Single(value) == [kind |-> "Single", values |-> <<value>>]
Array(values) == [kind |-> "Array", values |-> values]
ForeignCallResult(values) == [values |-> values]

\* RegisterOrMemory
RegisterIndex(index) == [kind |-> "RegisterIndex", a |-> index, b |-> 0]
HeapArray(pointer_index, size) == [kind |-> "HeapArray", a |-> pointer_index, b |-> size]
HeapVector(pointer_index, size_index) == [kind |-> "HeapVector", a |-> pointer_index, b |-> size_index]

\* Opcode of the Brillig VM
OpConst(destination, value) ==
    [op |-> "Const", destination |-> destination, value |-> value]
OpMov(destination, source) ==
    [op |-> "Mov", destination |-> destination, source |-> source]
OpForeignCall(function, destinations, inputs) ==
    [op |-> "ForeignCall", function |-> function,
     destinations |-> destinations, inputs |-> inputs]
OpStop == [op |-> "Stop"]
OpTrap == [op |-> "Trap"]
OpJump(location) == [op |-> "Jump", location |-> location]
OpJumpIf(condition, location) ==
    [op |-> "JumpIf", condition |-> condition, location |-> location]
OpJumpIfNot(condition, location) ==
    [op |-> "JumpIfNot", condition |-> condition, location |-> location]
OpCall(location) == [op |-> "Call", location |-> location]
OpLoad(destination, source_pointer) ==
    [op |-> "Load", destination |-> destination, source_pointer |-> source_pointer]
OpStore(destination_pointer, source) ==
    [op |-> "Store", destination_pointer |-> destination_pointer, source |-> source]
OpReturn == [op |-> "Return"]

\* VM::new
VM_new(inputs, memory, bytecode, foreign_call_results) ==
    [registers |-> inputs,
     program_counter |-> 0,
     foreign_call_counter |-> 0,
     foreign_call_results |-> foreign_call_results,
     bytecode |-> bytecode,
     status |-> VMInProgress,
     memory |-> memory,
     call_stack |-> <<>>]

\* variant that also steps over the failing opcode
fail_advancing(vm, message) ==
    [vm EXCEPT !.status = VMFailure(message),
               !.program_counter = vm.program_counter + 1]

\* VM::fail
fail(vm, message) == [vm EXCEPT !.status = VMFailure(message)]

\* variant that moves the program counter and leaves the status alone
set_program_counter_only(vm, value) == [vm EXCEPT !.program_counter = value]

\* VM::set_program_counter: past the end the status becomes Finished
set_program_counter(vm, value) ==
    [vm EXCEPT !.program_counter = value,
               !.status = IF value >= Len(vm.bytecode) THEN VMFinished ELSE vm.status]

\* VM::increment_program_counter
increment_program_counter(vm) == set_program_counter(vm, vm.program_counter + 1)

\* variant that takes the second field of a HeapVector for its size
get_register_value_or_memory_values_sized(vm, input) ==
    IF input.kind = "RegisterIndex"
    THEN <<registers_get(vm.registers, input.a)>>
    ELSE memory_read_slice(vm.memory, registers_get(vm.registers, input.a), input.b)

\* VM::get_register_value_or_memory_values
get_register_value_or_memory_values(vm, input) ==
    IF input.kind = "RegisterIndex"
    THEN <<registers_get(vm.registers, input.a)>>
    ELSE IF input.kind = "HeapArray"
    THEN memory_read_slice(vm.memory, registers_get(vm.registers, input.a), input.b)
    ELSE memory_read_slice(vm.memory, registers_get(vm.registers, input.a),
                           registers_get(vm.registers, input.b))

\* variant that writes the array one cell after the pointer
write_heap_vector_shifted(vm, destination, output) ==
    [vm EXCEPT !.memory =
        memory_write_slice(vm.memory, registers_get(vm.registers, destination.a) + 1,
                           output.values)]

\* the HeapVector arm after the size register was set: the array goes to
\* memory at the address the pointer register holds
write_heap_vector(vm, destination, output) ==
    [vm EXCEPT !.memory =
        memory_write_slice(vm.memory, registers_get(vm.registers, destination.a),
                           output.values)]

RECURSIVE WriteForeignCallOutputs(_, _, _, _)
\* the loop over destinations.iter().zip(values) of the ForeignCall arm,
\* from pair i on; gives the VM and the invalid_foreign_call_result flag
WriteForeignCallOutputs(vm, destinations, values, i) ==
    IF i > Len(destinations) \/ i > Len(values)
    THEN [vm |-> vm, invalid |-> FALSE, panic |-> FALSE]
    ELSE LET destination == destinations[i]
             output == values[i]
         IN  IF destination.kind = "RegisterIndex"
             THEN IF output.kind = "Single"
                  THEN WriteForeignCallOutputs(
                           [vm EXCEPT !.registers =
                               registers_set(vm.registers, destination.a, output.values[1])],
                           destinations, values, i + 1)
                  ELSE [vm |-> vm, invalid |-> FALSE, panic |-> TRUE]
             ELSE IF output.kind # "Array"
             THEN [vm |-> vm, invalid |-> FALSE, panic |-> TRUE]
             ELSE IF destination.kind = "HeapArray"
             THEN IF Len(output.values) # destination.b
                  THEN [vm |-> vm, invalid |-> TRUE, panic |-> FALSE]
                  ELSE WriteForeignCallOutputs(
                           [vm EXCEPT !.memory =
                               memory_write_slice(vm.memory,
                                   registers_get(vm.registers, destination.a),
                                   output.values)],
                           destinations, values, i + 1)
             ELSE WriteForeignCallOutputs(
                      write_heap_vector(
                          [vm EXCEPT !.registers =
                              registers_set(vm.registers, destination.b,
                                            Len(output.values) % FieldModulus)],
                          destination, output),
                      destinations, values, i + 1)

\* variant that counts a ForeignCall as two
finish_foreign_call_twice(w, destinations, values) ==
    IF w.panic THEN [w.vm EXCEPT !.status = VMPanic]
    ELSE increment_program_counter(
             [w.vm EXCEPT
                 !.status = IF w.invalid
                            THEN VMFailure("Function result size does not match brillig bytecode")
                            ELSE IF Len(destinations) # Len(values)
                            THEN VMFailure("wrong number of output values")
                            ELSE w.vm.status,
                 !.foreign_call_counter = w.vm.foreign_call_counter + 2])

\* the end of the ForeignCall arm, w being the outcome of the output loop:
\* the two checks call fail(), then the counter and the program counter
\* are advanced in every case
finish_foreign_call(w, destinations, values) ==
    IF w.panic THEN [w.vm EXCEPT !.status = VMPanic]
    ELSE increment_program_counter(
             [w.vm EXCEPT
                 !.status = IF w.invalid
                            THEN VMFailure("Function result size does not match brillig bytecode")
                            ELSE IF Len(destinations) # Len(values)
                            THEN VMFailure("wrong number of output values")
                            ELSE w.vm.status,
                 !.foreign_call_counter = w.vm.foreign_call_counter + 1])

\* the results consumed by the ForeignCall at foreign_call_counter
current_values(vm) == vm.foreign_call_results[vm.foreign_call_counter + 1].values

\* variant that steps over the ForeignCall it is waiting for
wait_for_foreign_call_advancing(vm, function, inputs) ==
    [vm EXCEPT !.status = VMForeignCallWait(function, inputs),
               !.program_counter = vm.program_counter + 1]

\* VM::wait_for_foreign_call: only the status changes
wait_for_foreign_call(vm, function, inputs) ==
    [vm EXCEPT !.status = VMForeignCallWait(function, inputs)]

\* the ForeignCall arm of VM::process_opcode
process_foreign_call(vm, opcode) ==
    IF vm.foreign_call_counter >= Len(vm.foreign_call_results)
    THEN wait_for_foreign_call(vm, opcode.function,
              [k \in 1 .. Len(opcode.inputs) |->
                  get_register_value_or_memory_values(vm, opcode.inputs[k])])
    ELSE finish_foreign_call(
             WriteForeignCallOutputs(vm, opcode.destinations, current_values(vm), 1),
             opcode.destinations, current_values(vm))

\* variant that jumps whatever the condition register holds
conditional_jump_always(vm, opcode, taken) == set_program_counter(vm, opcode.location)

\* the JumpIf and JumpIfNot arms: jump when the condition register is
\* non-zero (JumpIf) or zero (JumpIfNot), else go to the next opcode
conditional_jump(vm, opcode, taken) ==
    IF taken THEN set_program_counter(vm, opcode.location)
    ELSE increment_program_counter(vm)

\* the Call arm: push the return location as a Value, then jump
process_call(vm, opcode) ==
    set_program_counter(
        [vm EXCEPT !.call_stack =
            Append(vm.call_stack, (vm.program_counter + 1) % FieldModulus)],
        opcode.location)

\* variant that returns to the oldest return location
process_return_oldest(vm) ==
    IF vm.call_stack # <<>>
    THEN set_program_counter([vm EXCEPT !.call_stack = Tail(vm.call_stack)],
                             vm.call_stack[1])
    ELSE fail(vm, "return opcode hit, but callstack already empty")

\* the Return arm: pop the last return location into the program counter
process_return(vm) ==
    IF vm.call_stack # <<>>
    THEN set_program_counter(
             [vm EXCEPT !.call_stack = SubSeq(vm.call_stack, 1, Len(vm.call_stack) - 1)],
             vm.call_stack[Len(vm.call_stack)])
    ELSE fail(vm, "return opcode hit, but callstack already empty")

\* the Load arm: the register gets the cell the pointer register names
process_load(vm, opcode) ==
    increment_program_counter(
        [vm EXCEPT !.registers =
            registers_set(vm.registers, opcode.destination,
                memory_read(vm.memory, registers_get(vm.registers, opcode.source_pointer)))])

\* variant that takes the source register for the address and the pointer
\* register for the value
process_store_swapped(vm, opcode) ==
    increment_program_counter(
        [vm EXCEPT !.memory =
            memory_write(vm.memory, registers_get(vm.registers, opcode.source),
                         registers_get(vm.registers, opcode.destination_pointer))])

\* the Store arm: the cell the pointer register names gets the register
process_store(vm, opcode) ==
    increment_program_counter(
        [vm EXCEPT !.memory =
            memory_write(vm.memory, registers_get(vm.registers, opcode.destination_pointer),
                         registers_get(vm.registers, opcode.source))])

\* the match on the opcode in VM::process_opcode
process_decoded(vm, opcode) ==
    CASE opcode.op = "Jump" -> set_program_counter(vm, opcode.location)
      [] opcode.op = "Load" -> process_load(vm, opcode)
      [] opcode.op = "Store" -> process_store(vm, opcode)
      [] opcode.op = "JumpIf" ->
            conditional_jump(vm, opcode, registers_get(vm.registers, opcode.condition) # 0)
      [] opcode.op = "JumpIfNot" ->
            conditional_jump(vm, opcode, registers_get(vm.registers, opcode.condition) = 0)
      [] opcode.op = "Return" -> process_return(vm)
      [] opcode.op = "Call" -> process_call(vm, opcode)
      [] opcode.op = "Const" ->
            increment_program_counter(
                [vm EXCEPT !.registers =
                    registers_set(vm.registers, opcode.destination, opcode.value)])
      [] opcode.op = "Mov" ->
            increment_program_counter(
                [vm EXCEPT !.registers =
                    registers_set(vm.registers, opcode.destination,
                                  registers_get(vm.registers, opcode.source))])
      [] opcode.op = "ForeignCall" -> process_foreign_call(vm, opcode)
      [] opcode.op = "Trap" -> fail(vm, "explicit trap hit in brillig")
      [] opcode.op = "Stop" -> [vm EXCEPT !.status = VMFinished]

\* VM::process_opcode: indexing the bytecode past its end panics
process_opcode(vm) ==
    IF vm.program_counter >= Len(vm.bytecode)
    THEN [vm EXCEPT !.status = VMPanic]
    ELSE process_decoded(vm, vm.bytecode[vm.program_counter + 1])

\* the test of the while loop of VM::process_opcodes on the status returned
halts(stepped) == stepped.status.tag \in {"Finished", "Failure", "ForeignCallWait", "Panic"}

RECURSIVE run_from(_)
\* VM::process_opcodes, stepped being the VM after a call of process_opcode
run_from(stepped) ==
    IF halts(stepped) THEN stepped ELSE run_from(process_opcode(stepped))

\* VM::process_opcodes: step until Finished, Failure or ForeignCallWait
process_opcodes(vm) == run_from(process_opcode(vm))

\* ------------------------------------------------------- Brillig solver
\* Brillig opcode: inputs are loaded into registers 0.., outputs are read
\* from registers 0.. when the VM has finished
BrilligCall(inputs, outputs, bytecode, foreign_call_results) ==
    [inputs |-> inputs, outputs |-> outputs, bytecode |-> bytecode,
     foreign_call_results |-> foreign_call_results]

\* ForeignCallWaitInfo
ForeignCallWaitInfo(function, inputs) == [function |-> function, inputs |-> inputs]

RECURSIVE InsertOutputs(_, _, _, _)
\* insert_value(outputs[i], register i - 1) for i.., stopping at an error
InsertOutputs(witness_map, outputs, registers, i) ==
    IF i > Len(outputs) THEN [witness_map |-> witness_map, ok |-> TRUE]
    ELSE LET ins == insert_value(outputs[i], registers_get(registers, i - 1), witness_map)
         IN  IF ins.ok THEN InsertOutputs(ins.witness_map, outputs, registers, i + 1)
             ELSE ins

\* the inputs of the call that have no assignment, in input order
MissingInputs(witness_map, inputs) ==
    SelectSeq(inputs, LAMBDA w : ~contains_key(witness_map, w))

\* the registers a Brillig call starts with: input k in register k - 1
input_registers(initial_witness, inputs) ==
    [r \in RegisterIndices |->
        IF r + 1 <= Len(inputs) THEN initial_witness[inputs[r + 1]] ELSE 0]

\* the match on the status of the VM in BrilligSolver::solve
vm_resolution(initial_witness, brillig, vm) ==
    CASE vm.status.tag = "Finished" ->
            after_insert(InsertOutputs(initial_witness, brillig.outputs, vm.registers, 1))
      [] vm.status.tag = "Failure" ->
            [witness_map |-> initial_witness,
             resolution |-> ResErr(BrilligFunctionFailed(vm.status.message))]
      [] vm.status.tag = "ForeignCallWait" ->
            [witness_map |-> initial_witness,
             resolution |-> ResInProgressBrillig(
                 ForeignCallWaitInfo(vm.status.function, vm.status.inputs))]
      [] OTHER ->
            [witness_map |-> initial_witness,
             resolution |-> ResErr([tag |-> "Panic"])]

\* the VM of one BrilligSolver::solve, after process_opcodes()
run_brillig(initial_witness, brillig) ==
    process_opcodes(VM_new(input_registers(initial_witness, brillig.inputs),
                           <<>>, brillig.bytecode, brillig.foreign_call_results))

\* BrilligSolver::solve: run a fresh VM over the bytecode with the results
\* supplied so far
BrilligSolver_solve(initial_witness, brillig) ==
    IF Len(MissingInputs(initial_witness, brillig.inputs)) > 0
    THEN [witness_map |-> initial_witness,
          resolution |-> ResStalled(MissingAssignment(
              MissingInputs(initial_witness, brillig.inputs)[1]))]
    ELSE vm_resolution(initial_witness, brillig, run_brillig(initial_witness, brillig))

\* ---------------------------------------------------------- block solver
\* MemOp of a block trace: operation 0 reads, 1 writes
MemOp(operation, index, value) == [operation |-> operation, index |-> index, value |-> value]
MemoryBlock(id, trace) == [id |-> id, trace |-> trace]

\* BlockSolver::default: nothing written, no trace entry processed
BlockSolver_default == [block_value |-> [i \in Field |-> NoValue], solved_operations |-> 0]

\* variant that moves past the trace entry it stops at
block_stop_advancing(solver, witness_map, resolution) ==
    [solver |-> [solver EXCEPT !.solved_operations = solver.solved_operations + 1],
     witness_map |-> witness_map, resolution |-> resolution]

\* the outcome of a trace entry that cannot be processed now
block_stop(solver, witness_map, resolution) ==
    [solver |-> solver, witness_map |-> witness_map, resolution |-> resolution]

\* the solver after one more trace entry
advance(solver) == [solver EXCEPT !.solved_operations = solver.solved_operations + 1]

\* variant that constrains the read to the negated stored value
read_equation_negated(value, stored) ==
    Expr(FAdd(value.q_c, stored), value.linear_combinations)

\* the equality a read gives: value - block_value[index] = 0
read_equation(value, stored) == Expr(FSub(value.q_c, stored), value.linear_combinations)

RECURSIVE solve_helper(_, _, _)
RECURSIVE solve_entry(_, _, _, _, _, _)
RECURSIVE solve_read(_, _, _, _)

\* a read whose equation has been given to the arithmetic solver (r)
solve_read(solver, initial_witness, trace, r) ==
    IF r.resolution.tag = "Solved"
    THEN solve_helper(advance(solver), r.witness_map, trace)
    ELSE block_stop(solver, r.witness_map, r.resolution)

\* one trace entry, idx and val being get_value of its index and value
solve_entry(solver, initial_witness, trace, entry, idx, val) ==
    IF ~idx.ok
    THEN block_stop(solver, initial_witness, ResStalled(idx.reason))
    ELSE IF entry.operation = 1
    THEN IF ~val.ok
         THEN block_stop(solver, initial_witness, ResStalled(val.reason))
         ELSE solve_helper(
                  [advance(solver) EXCEPT !.block_value[idx.value] = val.value],
                  initial_witness, trace)
    ELSE IF solver.block_value[idx.value] = NoValue
    THEN block_stop(solver, initial_witness, ResErr(UnsatisfiedConstrain))
    ELSE solve_read(solver, initial_witness, trace,
             ArithmeticSolver_solve(initial_witness,
                 read_equation(entry.value, solver.block_value[idx.value])))

\* BlockSolver::solve_helper: process the trace from solved_operations on
solve_helper(solver, initial_witness, trace) ==
    IF solver.solved_operations >= Len(trace)
    THEN block_stop(solver, initial_witness, ResSolved)
    ELSE solve_entry(solver, initial_witness, trace,
             trace[solver.solved_operations + 1],
             get_value(trace[solver.solved_operations + 1].index, initial_witness),
             get_value(trace[solver.solved_operations + 1].value, initial_witness))

\* the result of BlockSolver::solve, r being what solve_helper gave: a
\* stall after some progress is reported as InProgress
block_resolution(solver, r) ==
    IF r.resolution.tag = "Stalled"
       /\ r.solver.solved_operations > solver.solved_operations
    THEN [r EXCEPT !.resolution = ResInProgress]
    ELSE r

\* BlockSolver::solve
BlockSolver_solve(solver, initial_witness, trace) ==
    block_resolution(solver, solve_helper(solver, initial_witness, trace))

\* -------------------------------------------------------- black boxes
\* FunctionInput (and the GadgetInput of the legacy gates): a witness and
\* the number of its bits that the function uses
FunctionInput(witness, num_bits) == [witness |-> witness, num_bits |-> num_bits]

\* BlackBoxFuncCall: name is the variant; every variant of the model keeps
\* its input witnesses in inputs and its output witnesses in outputs
BlackBoxFunc(name, inputs, outputs) ==
    [name |-> name, inputs |-> inputs, outputs |-> outputs]

\* BlackBoxFuncCall::get_inputs_vec: the inputs in the order of the call
get_inputs_vec(bb_func) == bb_func.inputs

\* the positions of the inputs that have no assignment
unassigned_inputs(witness_assignments, inputs) ==
    {k \in 1 .. Len(inputs) : ~contains_key(witness_assignments, inputs[k].witness)}

\* variant that reports the last input without an assignment
first_missing_assignment_last(witness_assignments, inputs) ==
    inputs[CHOOSE k \in unassigned_inputs(witness_assignments, inputs) :
              \A j \in unassigned_inputs(witness_assignments, inputs) : j <= k].witness

\* first_missing_assignment: find_map over the inputs in order (the caller
\* has checked that some input is missing)
first_missing_assignment(witness_assignments, inputs) ==
    inputs[CHOOSE k \in unassigned_inputs(witness_assignments, inputs) :
              \A j \in unassigned_inputs(witness_assignments, inputs) : k <= j].witness

\* contains_all_inputs
contains_all_inputs(witness_assignments, inputs) ==
    \A k \in 1 .. Len(inputs) : contains_key(witness_assignments, inputs[k].witness)

RECURSIVE Pow2(_)
Pow2(n) == IF n <= 0 THEN 1 ELSE 2 * Pow2(n - 1)

\* FieldElement::truncate_to_bytes: the least significant ceil(num_bits / 8)
\* bytes of the value, lowest byte first
truncate_to_bytes(value, num_bits) ==
    [k \in 1 .. ((num_bits + 7) \div 8) |-> (value \div Pow2(8 * (k - 1))) % 256]

RECURSIVE hashed_bytes(_, _, _)
\* the bytes given to hasher.update, input after input from input i on
hashed_bytes(initial_witness, inputs, i) ==
    IF i > Len(inputs) THEN <<>>
    ELSE truncate_to_bytes(initial_witness[inputs[i].witness], inputs[i].num_bits)
         \o hashed_bytes(initial_witness, inputs, i + 1)

RECURSIVE Mix(_, _, _)
Mix(bytes, i, acc) ==
    IF i > Len(bytes) THEN acc ELSE Mix(bytes, i + 1, (acc * 3 + bytes[i] + i) % FieldModulus)

\* hasher.finalize(): the 32 bytes of the digest; the hash function itself
\* is outside the program and stands here as a fixed function of the
\* hasher and the bytes
finalize(hasher, bytes) ==
    [k \in 1 .. 32 |->
        (37 * Mix(bytes, 1, IF hasher = "SHA256" THEN 1 ELSE 2)
           + 11 * k * (1 + Mix(bytes, 1, IF hasher = "SHA256" THEN 4 ELSE 7))) % 256]

RECURSIVE from_bytes_from(_, _, _)
\* the bytes from position i on shifted into acc, most significant first
from_bytes_from(bytes, i, acc) ==
    IF i > Len(bytes) THEN acc
    ELSE from_bytes_from(bytes, i + 1, (acc * 256 + bytes[i]) % FieldModulus)

\* FieldElement::from_bytes: the big-endian number of the bytes, as a
\* field element
from_bytes(bytes) == from_bytes_from(bytes, 1, 0)

\* variant that gives the upper half of the digest to the first output
split_digest_swapped(result) ==
    <<from_bytes(SubSeq(result, 17, Len(result))), from_bytes(SubSeq(result, 1, 16))>>

\* result.split_at(16) and from_bytes of each half: (low_128_field,
\* high_128_field)
split_digest(result) ==
    <<from_bytes(SubSeq(result, 1, 16)), from_bytes(SubSeq(result, 17, Len(result)))>>

\* the two field elements a hash of the bytes gives
Digest(hasher, bytes) == split_digest(finalize(hasher, bytes))

\* solve_range_opcode: the input fits in its number of bits, or the
\* constraint is unsatisfied
solve_range_opcode(initial_witness, input) ==
    [witness_map |-> initial_witness,
     resolution |-> IF initial_witness[input.witness] < Pow2(input.num_bits)
                    THEN ResSolved ELSE ResErr(UnsatisfiedConstrain)]

\* the second output of a hash, ins being the insertion of the first
second_output(ins, witness, value) ==
    IF ins.ok THEN after_insert(insert_value(witness, value, ins.witness_map))
    ELSE after_insert(ins)

\* solve_generic_256_hash_opcode: the digest of the input bytes goes to the
\* two outputs, each by insert_value
solve_generic_256_hash_opcode(initial_witness, inputs, outputs, hasher) ==
    second_output(
        insert_value(outputs[1], Digest(hasher, hashed_bytes(initial_witness, inputs, 1))[1],
                     initial_witness),
        outputs[2], Digest(hasher, hashed_bytes(initial_witness, inputs, 1))[2])

\* the backend hook schnorr_verify of the host: this host finds every
\* signature valid and assigns the output the value 1
backend_schnorr_verify(initial_witness, inputs, output) ==
    after_insert(insert_value(output, 1, initial_witness))

\* a resolution together with the function that was run to get it
invoking(function, r) ==
    [witness_map |-> r.witness_map, resolution |-> r.resolution, invoked |-> function]

\* the match on bb_func in blackbox::solve
run_black_box(initial_witness, bb_func) ==
    CASE bb_func.name = "RANGE" ->
            invoking("solve_range_opcode",
                     solve_range_opcode(initial_witness, bb_func.inputs[1]))
      [] bb_func.name \in {"SHA256", "Blake2s"} ->
            invoking("solve_generic_256_hash_opcode",
                     solve_generic_256_hash_opcode(initial_witness, bb_func.inputs,
                                                   bb_func.outputs, bb_func.name))
      [] bb_func.name = "SchnorrVerify" ->
            invoking("backend.schnorr_verify",
                     backend_schnorr_verify(initial_witness, bb_func.inputs,
                                            bb_func.outputs[1]))
      [] bb_func.name = "RecursiveAggregation" ->
            invoking("none", [witness_map |-> initial_witness, resolution |-> ResSolved])

\* blackbox::solve: stall on the first input without an assignment, else
\* run the function
blackbox_solve(initial_witness, bb_func) ==
    IF ~contains_all_inputs(initial_witness, get_inputs_vec(bb_func))
    THEN invoking("none",
             [witness_map |-> initial_witness,
              resolution |-> ResStalled(MissingAssignment(
                  first_missing_assignment(initial_witness, get_inputs_vec(bb_func))))])
    ELSE run_black_box(initial_witness, bb_func)

\* GadgetCall of the legacy gates
GadgetCall(name, inputs, outputs) ==
    [name |-> name, inputs |-> inputs, outputs |-> outputs]

\* the two initial_witness.insert(..) of the legacy hash functions: the
\* entries are replaced whatever they held
insert_digest(initial_witness, outputs, digest) ==
    [initial_witness EXCEPT ![outputs[1]] = digest[1], ![outputs[2]] = digest[2]]

\* blake2s / sha256 of the legacy hash module: they return nothing; a
\* missing input assignment and a number of outputs other than 2 panic
legacy_hash(hasher, initial_witness, gadget_call) ==
    IF \/ ~contains_all_inputs(initial_witness, gadget_call.inputs)
       \/ Len(gadget_call.outputs) # 2
    THEN [witness_map |-> initial_witness, panic |-> TRUE]
    ELSE [witness_map |->
              insert_digest(initial_witness, gadget_call.outputs,
                  Digest(hasher, hashed_bytes(initial_witness, gadget_call.inputs, 1))),
          panic |-> FALSE]

\* ------------------------------------------- the keccak256 fallback
BITS == 256
WORD_SIZE == 8
BLOCK_SIZE == (1600 - BITS * 2) \div WORD_SIZE

\* an opcode made by a helper of the fallbacks: origin names the helper,
\* w the witness the helper took from the counter
Gate(origin, w) == [kind |-> "Arithmetic", origin |-> origin, w |-> w]

\* utils::round_to_nearest_byte
round_to_nearest_byte(num_bits) == (num_bits + 7) \div 8

\* utils::byte_decomposition: num_bytes new witnesses and the opcode that
\* ties them to the expression
byte_decomposition(expr, num_bytes, num_witness) ==
    [gates |-> <<Gate("byte_decomposition", num_witness)>>,
     inputs |-> [k \in 1 .. num_bytes |-> num_witness + k - 1],
     num_witness |-> num_witness + num_bytes]

\* sha256::pad: a new witness constrained to the number
pad(number, bit_size, num_witness) ==
    [num_witness |-> num_witness + 1, pad_witness |-> num_witness,
     gates |-> <<Gate("pad", num_witness)>>]

\* UInt8::load_constant: a new witness constrained to the constant
UInt8_load_constant(constant, num_witness) ==
    [inner |-> num_witness, gates |-> <<Gate("load_constant", num_witness)>>,
     num_witness |-> num_witness + 1]

\* UInt8::xor: a new witness constrained to the xor of the operands
UInt8_xor(lhs, rhs, num_witness) ==
    [inner |-> num_witness, gates |-> <<Gate("xor", num_witness)>>,
     num_witness |-> num_witness + 1]

RECURSIVE decompose_inputs(_, _, _)
\* the first loop of keccak256, from input i on; acc holds new_gates,
\* new_inputs and num_witness
decompose_inputs(inputs, i, acc) ==
    IF i > Len(inputs) THEN acc
    ELSE \* one byte_decomposition per input
         LET d == byte_decomposition(inputs[i].expr,
                      round_to_nearest_byte(inputs[i].num_bits), acc.num_witness)
         IN  decompose_inputs(inputs, i + 1,
                 [new_gates |-> acc.new_gates \o d.gates,
                  new_inputs |-> acc.new_inputs \o d.inputs,
                  num_witness |-> d.num_witness])

\* the for loop of pad_keccak, n iterations from acc (input, new_gates and
\* num_witness): iteration k calls pad with the counter the iteration
\* before it returned, which is acc.num_witness + k - 1
pad_zeros(n, acc) ==
    [input |-> acc.input
                 \o [k \in 1 .. n |-> pad(0, 8, acc.num_witness + k - 1).pad_witness],
     new_gates |-> acc.new_gates
                 \o [k \in 1 .. n |-> pad(0, 8, acc.num_witness + k - 1).gates[1]],
     num_witness |-> IF n = 0 THEN acc.num_witness
                     ELSE pad(0, 8, acc.num_witness + n - 1).num_witness]

\* what pad_keccak returns, padded being the state after the loop, c the
\* loaded constant 0x80 and x the xor: the opcodes returned are the
\* extra_gates of the xor; new_gates is the local that is dropped
pad_keccak_return(padded, total_len, c, x) ==
    [input |-> [padded.input EXCEPT ![total_len] = x.inner],
     gates |-> x.gates,
     new_gates |-> padded.new_gates \o c.gates,
     num_witness |-> x.num_witness]

\* the xor of pad_keccak, c being the loaded constant 0x80
pad_keccak_xor(padded, total_len, c) ==
    pad_keccak_return(padded, total_len, c,
        UInt8_xor(padded.input[total_len], c.inner, c.num_witness))

\* the end of pad_keccak: load 0x80 and xor it into input[total_len - 1]
pad_keccak_final(padded, total_len) ==
    pad_keccak_xor(padded, total_len, UInt8_load_constant(128, padded.num_witness))

\* pad_keccak: one pad of 0x01, total_len pads of 0x00, then the xor
pad_keccak(input, num_blocks, num_witness) ==
    pad_keccak_final(
        pad_zeros(BLOCK_SIZE * num_blocks,
            [input |-> Append(input, pad(1, 8, num_witness).pad_witness),
             new_gates |-> pad(1, 8, num_witness).gates,
             num_witness |-> pad(1, 8, num_witness).num_witness]),
        BLOCK_SIZE * num_blocks)

\* create_keccak_constraint: the result is the empty vector
create_keccak_constraint(input, num_witness) ==
    [result |-> <<>>,
     num_witness |-> pad_keccak(input, Len(input) \div BLOCK_SIZE + 1, num_witness).num_witness,
     gates |-> pad_keccak(input, Len(input) \div BLOCK_SIZE + 1, num_witness).gates,
     dropped |-> pad_keccak(input, Len(input) \div BLOCK_SIZE + 1, num_witness).new_gates]

\* the opcode outputs[i] - result[i] = 0
output_gate(output, result) ==
    [kind |-> "Arithmetic", origin |-> "output", w |-> output, result |-> result]

RECURSIVE constrain_outputs(_, _, _, _)
\* the last loop of keccak256, from output i on: result[i] is indexed
\* whatever the length of result
constrain_outputs(outputs, result, i, new_gates) ==
    IF i > Len(outputs) THEN [panic |-> FALSE, new_gates |-> new_gates]
    ELSE IF i > Len(result) THEN [panic |-> TRUE, new_gates |-> new_gates]
    ELSE constrain_outputs(outputs, result, i + 1,
             Append(new_gates, output_gate(outputs[i], result[i])))

\* the end of keccak256, d being the decomposition, k the constraint and
\* o the loop over the outputs
keccak256_return(d, k, o) ==
    [panic |-> o.panic,
     num_witness |-> k.num_witness,
     new_gates |-> o.new_gates,
     generated |-> d.new_gates \o k.dropped \o k.gates,
     result |-> k.result]

\* keccak256 after the decomposition d of the inputs and the constraint k
keccak256_outputs(d, k, outputs) ==
    keccak256_return(d, k,
        constrain_outputs(outputs, k.result, 1, d.new_gates \o k.gates))

\* keccak256 after the decomposition d of the inputs
keccak256_constraint(d, outputs) ==
    keccak256_outputs(d, create_keccak_constraint(d.new_inputs, d.num_witness), outputs)

\* keccak256(inputs, outputs, num_witness)
keccak256(inputs, outputs, num_witness) ==
    keccak256_constraint(
        decompose_inputs(inputs, 1,
            [new_gates |-> <<>>, new_inputs |-> <<>>, num_witness |-> num_witness]),
        outputs)

\* ------------------------------------------------------------- opcodes
\* acir Opcode; id is the position of the opcode in the circuit given to
\* ACVM::new and travels with the opcode (it tells clones of it apart)
Arithmetic(expr) == [kind |-> "Arithmetic", expr |-> expr]
Brillig(brillig) == [kind |-> "Brillig", brillig |-> brillig]
Block(block) == [kind |-> "Block", block |-> block]
ROM(block) == [kind |-> "ROM", block |-> block]
RAM(block) == [kind |-> "RAM", block |-> block]
BlackBoxFuncCall(bb_func) == [kind |-> "BlackBoxFuncCall", bb_func |-> bb_func]
Directive(directive) == [kind |-> "Directive", directive |-> directive]

\* the opcode kinds that ACVM::solve hands to the block solver
uses_block_solver(opcode) == opcode.kind \in {"Block", "ROM", "RAM"}

\* Language
R1CS == [tag |-> "R1CS"]
PLONKCSat(width) == [tag |-> "PLONKCSat", width |-> width]

\* default_is_opcode_supported and its two predicates
r1cs_is_supported(opcode) == opcode.kind = "Arithmetic"
plonk_is_supported(opcode) == opcode.kind # "Block"
default_is_opcode_supported(language, opcode) ==
    IF language.tag = "R1CS" THEN r1cs_is_supported(opcode)
    ELSE plonk_is_supported(opcode)
OpcodeEntry(id, opcode) == [id |-> id, opcode |-> opcode]

\* UnresolvedBrilligCall
UnresolvedBrilligCall(id, brillig, foreign_call_wait_info) ==
    [id |-> id, brillig |-> brillig, foreign_call_wait_info |-> foreign_call_wait_info]

\* PartialWitnessGeneratorStatus and the Err arm of solve()'s Result
StatusSolved == [tag |-> "Solved"]
StatusRequiresForeignCall == [tag |-> "RequiresForeignCall"]
StatusErr(err) == [tag |-> "Err", err |-> err]
\* solve() has run MaxRounds rounds and its while loop still goes on
StatusRoundLimit == [tag |-> "RoundLimit"]

\* Option<OpcodeNotSolvable>::None
NoReason == [tag |-> "None"]

\* block_solvers.entry(id).or_default()
entry_or_default(block_solvers, id) ==
    IF id \in DOMAIN block_solvers THEN block_solvers[id] ELSE BlockSolver_default

\* what a sub-solver without block state hands back to the loop
with_solvers(block_solvers, r) ==
    [witness_map |-> r.witness_map, block_solvers |-> block_solvers,
     resolution |-> r.resolution]

\* what the block solver of block id hands back: its state is stored
with_solver(block_solvers, id, r) ==
    [witness_map |-> r.witness_map,
     block_solvers |-> [k \in DOMAIN block_solvers \cup {id} |->
                           IF k = id THEN r.solver ELSE block_solvers[k]],
     resolution |-> r.resolution]

\* the match on the opcode kind in ACVM::solve: call the sub-solver
resolve_opcode(witness_map, block_solvers, opcode) ==
    CASE opcode.kind = "Arithmetic" ->
            with_solvers(block_solvers, ArithmeticSolver_solve(witness_map, opcode.expr))
      [] opcode.kind = "Brillig" ->
            with_solvers(block_solvers, BrilligSolver_solve(witness_map, opcode.brillig))
      [] opcode.kind = "BlackBoxFuncCall" ->
            with_solvers(block_solvers, blackbox_solve(witness_map, opcode.bb_func))
      [] uses_block_solver(opcode) ->
            with_solver(block_solvers, opcode.block.id,
                BlockSolver_solve(entry_or_default(block_solvers, opcode.block.id),
                                  witness_map, opcode.block.trace))

\* variant that keeps the reason of the last stalled opcode
record_not_solvable_last(opcode_not_solvable, not_solvable) == not_solvable

\* the Stalled arm: only the first reason of the round is kept
record_not_solvable(opcode_not_solvable, not_solvable) ==
    IF opcode_not_solvable = NoReason THEN not_solvable ELSE opcode_not_solvable

\* variant that puts the opcode in front of the ones already kept
retain_front(unresolved_opcodes, entry) == <<entry>> \o unresolved_opcodes

\* variant that keeps the opcode twice
retain_twice(unresolved_opcodes, entry) == Append(Append(unresolved_opcodes, entry), entry)

\* variant that forgets the opcode
retain_none(unresolved_opcodes, entry) == unresolved_opcodes

\* unresolved_opcodes.push(opcode.clone()): kept for the next round
retain(unresolved_opcodes, entry) == Append(unresolved_opcodes, entry)

\* variant that puts the call at the front of the pending queue
push_pending_front(pending_foreign_calls, call) == <<call>> \o pending_foreign_calls

\* the InProgressBrillig arm: the call joins the back of the pending queue
push_pending(pending_foreign_calls, call) == Append(pending_foreign_calls, call)

\* variant that takes a fatal error for a solved opcode
return_err_ignored(round, err) == [round EXCEPT !.stalled = FALSE]

\* Err(err) => return Err(err): the round ends with this error
return_err(round, err) == [round EXCEPT !.err = err]

\* the match on the resolution in ACVM::solve; round holds the locals of
\* the round (unresolved_opcodes, stalled, opcode_not_solvable) and the
\* fields of self that the round changes
apply_resolution(round, entry, r) ==
    LET seen == [round EXCEPT !.witness_map = r.witness_map,
                              !.block_solvers = r.block_solvers,
                              !.visits = Append(round.visits,
                                  [id |-> entry.id, resolution |-> r.resolution])]
        tag == r.resolution.tag
    IN  CASE tag = "Solved" -> [seen EXCEPT !.stalled = FALSE]
          [] tag = "InProgress" ->
                [seen EXCEPT !.stalled = FALSE,
                             !.unresolved_opcodes = retain(round.unresolved_opcodes, entry)]
          [] tag = "InProgressBrillig" ->
                [seen EXCEPT !.stalled = FALSE,
                             !.pending_foreign_calls =
                                 push_pending(round.pending_foreign_calls,
                                     UnresolvedBrilligCall(entry.id, entry.opcode.brillig,
                                                           r.resolution.info))]
          [] tag = "Stalled" ->
                [seen EXCEPT !.opcode_not_solvable =
                                 record_not_solvable(round.opcode_not_solvable,
                                                     r.resolution.reason),
                             !.unresolved_opcodes = retain(round.unresolved_opcodes, entry)]
          [] tag = "Err" -> return_err(seen, r.resolution.err)

\* variant that goes on with the round after an Err
continues_after_always(round) == TRUE

\* variant that also leaves the round at the first stalled opcode
continues_after_progress(round) ==
    round.err = NoReason /\ round.opcode_not_solvable = NoReason

\* whether the for loop goes on to the next opcode after this resolution
continues_after(round) == round.err = NoReason

\* one pass of the for body: the sub-solver is called on the opcode and
\* its resolution is matched
visit(round, entry) ==
    apply_resolution(round, entry,
        resolve_opcode(round.witness_map, round.block_solvers, entry.opcode))

RECURSIVE SolveRound(_, _, _)
\* the for loop over &self.opcodes, from opcode i on; visited is the round
\* after the visit of opcode i - 1; an Err returns at once
SolveRound(opcodes, i, visited) ==
    IF i > Len(opcodes) \/ ~continues_after(visited) THEN visited
    ELSE SolveRound(opcodes, i + 1, visit(visited, opcodes[i]))

\* the ids of a list of opcodes
Ids(entries) == [k \in 1 .. Len(entries) |-> entries[k].id]

\* the locals at the top of the while body
RoundStart(st) ==
    [witness_map |-> st.witness_map,
     block_solvers |-> st.block_solvers,
     pending_foreign_calls |-> st.pending_foreign_calls,
     unresolved_opcodes |-> <<>>,
     stalled |-> TRUE,
     opcode_not_solvable |-> NoReason,
     visits |-> <<>>,
     err |-> NoReason]

\* the test of the while loop of ACVM::solve
loop_continues(opcodes) == Len(opcodes) > 0

\* variant that never takes a round for stalled
is_stalled_never(round, opcodes) == FALSE

\* the stall test after a round
is_stalled(round, opcodes) == round.stalled /\ Len(opcodes) > 0

\* ACVM::get_pending_foreign_call: the wait info of the first pending call
get_pending_foreign_call(pending) ==
    IF Len(pending) = 0 THEN [tag |-> "None"]
    ELSE [tag |-> "Some", info |-> pending[1].foreign_call_wait_info]

\* std::mem::swap(&mut self.opcodes, &mut unresolved_opcodes): not reached
\* when the round returned an Err
swapped(st, round) ==
    IF round.err # NoReason THEN st.opcodes ELSE round.unresolved_opcodes

\* the fields of self after a round, and the log of the round
after_round(st, round) ==
    [opcodes |-> swapped(st, round),
     witness_map |-> round.witness_map,
     block_solvers |-> round.block_solvers,
     pending_foreign_calls |-> round.pending_foreign_calls,
     rounds |-> Append(st.rounds,
         [before |-> Ids(st.opcodes),
          visits |-> round.visits,
          after |-> Ids(swapped(st, round))]),
     result |-> st.result]

RECURSIVE SolveLoop(_)
RECURSIVE end_of_round(_, _)

\* the tests at the end of the while body, after being the session after
\* the round: Err of the round, pending foreign call, stall, next round
end_of_round(round, after) ==
    IF round.err # NoReason
    THEN [after EXCEPT !.result = StatusErr(round.err)]
    ELSE IF get_pending_foreign_call(after.pending_foreign_calls).tag = "Some"
    THEN [after EXCEPT !.result = StatusRequiresForeignCall]
    ELSE IF is_stalled(round, after.opcodes)
    THEN [after EXCEPT !.result =
             StatusErr(OpcodeNotSolvableErr(round.opcode_not_solvable))]
    ELSE IF Len(after.rounds) >= MaxRounds
    THEN [after EXCEPT !.result = StatusRoundLimit]
    ELSE SolveLoop(after)

\* the body of the while loop, round being the finished for loop
while_body(st, round) == end_of_round(round, after_round(st, round))

\* ACVM::solve from the top of its while loop; st holds the fields of self
\* and the rounds run so far; the result carries the returned value
SolveLoop(st) ==
    IF ~loop_continues(st.opcodes)
    THEN [st EXCEPT !.result = StatusSolved]
    ELSE while_body(st, SolveRound(st.opcodes, 1, RoundStart(st)))

\* variant that puts the result in front of the earlier results
resolve_front(foreign_call, foreign_call_result) ==
    [foreign_call.brillig EXCEPT !.foreign_call_results =
        <<foreign_call_result>> \o foreign_call.brillig.foreign_call_results]

\* variant that pushes the result twice
resolve_twice(foreign_call, foreign_call_result) ==
    [foreign_call.brillig EXCEPT !.foreign_call_results =
        Append(Append(foreign_call.brillig.foreign_call_results, foreign_call_result),
               foreign_call_result)]

\* UnresolvedBrilligCall::resolve: the result is pushed onto the results
resolve(foreign_call, foreign_call_result) ==
    [foreign_call.brillig EXCEPT !.foreign_call_results =
        Append(foreign_call.brillig.foreign_call_results, foreign_call_result)]

\* --------------------------------------------------------- the circuits
\* w1 - 3 = 0
A1 == Arithmetic(Expr(FNeg(3), <<Term(1, 1)>>))
\* w2 - w1 - 4 = 0
A2 == Arithmetic(Expr(FNeg(4), <<Term(1, 2), Term(FNeg(1), 1)>>))
\* w1 - 4 = 0
A3 == Arithmetic(Expr(FNeg(4), <<Term(1, 1)>>))
\* w2 + w3 = 0
A4 == Arithmetic(Expr(0, <<Term(1, 2), Term(1, 3)>>))
\* r0 := 5; r1 := double(r0); output w3 := r0
B1 == Brillig(BrilligCall(<<>>, <<3>>,
          <<OpConst(0, 5),
            OpForeignCall("double", <<RegisterIndex(1)>>, <<RegisterIndex(0)>>)>>,
          <<>>))
\* r0 := w1; r1 := f(r0); r2 := g(r1); outputs w1 := r0, w2 := r1
B2 == Brillig(BrilligCall(<<1>>, <<1, 2>>,
          <<OpForeignCall("f", <<RegisterIndex(1)>>, <<RegisterIndex(0)>>),
            OpForeignCall("g", <<RegisterIndex(2)>>, <<RegisterIndex(1)>>)>>,
          <<>>))
\* r0 := 5; output w1 := r0
B3 == Brillig(BrilligCall(<<>>, <<1>>, <<OpConst(0, 5), OpStop>>, <<>>))
\* block 0: write(0, 4); read(0, w2 + w3)
K1 == Block(MemoryBlock(0,
          <<MemOp(1, Expr(0, <<>>), Expr(4, <<>>)),
            MemOp(0, Expr(0, <<>>), Expr(0, <<Term(1, 2), Term(1, 3)>>))>>))

\* block 0 again: write(0, 3)
K2 == Block(MemoryBlock(0, <<MemOp(1, Expr(0, <<>>), Expr(3, <<>>))>>))

\* the opcodes circuits are built from
OpcodePool == {A1, A2, A3, A4, B1, B2, B3, K1}

\* the initial witness maps handed to ACVM::new
InitialWitnessMaps == {EmptyWitnessMap, [EmptyWitnessMap EXCEPT ![1] = 3]}

\* the results the host answers foreign calls with (the last one has no
\* output value at all)
ForeignCallResultPool ==
    {ForeignCallResult(<<Single(10)>>), ForeignCallResult(<<Single(4)>>),
     ForeignCallResult(<<>>)}

\* ------------------------------------------------------------ the session
VARIABLES
    opcodes,                \* ACVM.opcodes
    witness_map,            \* ACVM.witness_map
    pending_foreign_calls,  \* ACVM.pending_foreign_calls
    block_solvers,          \* ACVM.block_solvers
    status,                 \* value returned by the last call
    last_call,              \* the last call made on the session
    calls,                  \* number of calls made so far
    rounds,                 \* rounds run by the last solve(): visits in order
    surfaced,               \* every suspension so far, in order
    attached,               \* every resolution so far, in order
    circuit                 \* the opcodes handed to ACVM::new

\* a Brillig VM driven directly by its caller
VARIABLES
    vm,                     \* the VM
    vm_call,                \* the last call made on the VM
    executed                \* pc of every ForeignCall whose result was accepted

\* a function called on its own
VARIABLES
    probe                   \* the arguments of the call and what it gave

vars == <<opcodes, witness_map, pending_foreign_calls, block_solvers, status,
          last_call, calls, rounds, surfaced, attached, circuit,
          vm, vm_call, executed, probe>>

\* no VM is driven
VMIdle ==
    /\ vm = VM_new(EmptyRegisters, <<>>, <<>>, <<>>)
    /\ vm_call = "none"
    /\ executed = <<>>

\* no function is called on its own
ProbeIdle == probe = [fn |-> "none"]

StatusNone == [tag |-> "None"]
StatusResolved == [tag |-> "Resolved"]
StatusPanic == [tag |-> "Panic"]
StatusFinalized(map) == [tag |-> "Finalized", witness_map |-> map]

\* ACVM::new
Init ==
    /\ \E n \in 0 .. MaxOpcodes : \E c \in [1 .. n -> OpcodePool] :
          opcodes = [k \in 1 .. n |-> OpcodeEntry(k, c[k])]
    /\ witness_map \in InitialWitnessMaps
    /\ pending_foreign_calls = <<>>
    /\ block_solvers = [k \in {} |-> BlockSolver_default]
    /\ status = StatusNone
    /\ last_call = "new"
    /\ calls = 0
    /\ rounds = <<>>
    /\ surfaced = <<>>
    /\ attached = <<>>
    /\ circuit = opcodes
    /\ VMIdle
    /\ ProbeIdle

\* the session has not been consumed by finalize()
Alive == last_call # "finalize" /\ calls < MaxCalls

RECURSIVE Flatten(_)
\* the visits of a list of rounds, in order
Flatten(rs) == IF rs = <<>> THEN <<>> ELSE Head(rs).visits \o Flatten(Tail(rs))

\* the suspensions among a list of visits: opcode and reported wait info
Suspensions(visits) ==
    LET s == SelectSeq(visits, LAMBDA v : v.resolution.tag = "InProgressBrillig")
    IN  [k \in 1 .. Len(s) |->
            [id |-> s[k].id, info |-> s[k].resolution.info]]

\* ACVM::solve
Solve ==
    /\ Alive
    /\ \E out \in {SolveLoop([opcodes |-> opcodes,
                              witness_map |-> witness_map,
                              block_solvers |-> block_solvers,
                              pending_foreign_calls |-> pending_foreign_calls,
                              rounds |-> <<>>,
                              result |-> StatusNone])} :
           /\ opcodes' = out.opcodes
           /\ witness_map' = out.witness_map
           /\ block_solvers' = out.block_solvers
           /\ pending_foreign_calls' = out.pending_foreign_calls
           /\ status' = out.result
           /\ rounds' = out.rounds
           /\ surfaced' = surfaced \o Suspensions(Flatten(out.rounds))
    /\ last_call' = "solve"
    /\ calls' = calls + 1
    /\ UNCHANGED <<attached, circuit, vm, vm_call, executed, probe>>

\* ACVM::resolve_pending_foreign_call
ResolvePendingForeignCall(foreign_call_result) ==
    /\ Alive
    /\ Len(pending_foreign_calls) > 0
    /\ pending_foreign_calls' = Tail(pending_foreign_calls)
    /\ opcodes' = <<OpcodeEntry(Head(pending_foreign_calls).id,
                       Brillig(resolve(Head(pending_foreign_calls), foreign_call_result)))>>
                  \o opcodes
    /\ attached' = Append(attached,
           [id |-> opcodes'[1].id,
            info |-> Head(pending_foreign_calls).foreign_call_wait_info,
            result |-> foreign_call_result])
    /\ status' = StatusResolved
    /\ last_call' = "resolve"
    /\ calls' = calls + 1
    /\ rounds' = <<>>
    /\ UNCHANGED <<witness_map, block_solvers, surfaced>>
    /\ UNCHANGED <<circuit, vm, vm_call, executed, probe>>

\* ACVM::finalize: consumes the session
Finalize ==
    /\ Alive
    /\ status' = IF Len(opcodes) = 0
                    \/ get_pending_foreign_call(pending_foreign_calls).tag = "Some"
                 THEN StatusPanic
                 ELSE StatusFinalized(witness_map)
    /\ last_call' = "finalize"
    /\ calls' = calls + 1
    /\ rounds' = <<>>
    /\ UNCHANGED <<opcodes, witness_map, pending_foreign_calls, block_solvers,
                   surfaced, attached>>
    /\ UNCHANGED <<circuit, vm, vm_call, executed, probe>>

Next ==
    \/ Solve
    \/ \E r \in ForeignCallResultPool : ResolvePendingForeignCall(r)
    \/ Finalize

Spec == Init /\ [][Next]_vars

\* ------------------------------------------------- the VM on its own
\* the program of the test foreign_call_opcode_register_result
double_program ==
    <<OpConst(0, 5),
      OpForeignCall("double", <<RegisterIndex(1)>>, <<RegisterIndex(0)>>)>>
\* the same program with an opcode after the ForeignCall
double_then_mov == Append(double_program, OpMov(2, 1))
\* two foreign calls in a row
two_calls ==
    <<OpForeignCall("f", <<RegisterIndex(1)>>, <<RegisterIndex(0)>>),
      OpForeignCall("g", <<RegisterIndex(2)>>, <<RegisterIndex(1)>>)>>
\* a foreign call that fills the two cells at Mem[R[r0]]
array_program == <<OpForeignCall("fill", <<HeapArray(0, 2)>>, <<RegisterIndex(0)>>)>>
\* the same program with an opcode after the ForeignCall
array_then_stop == Append(array_program, OpStop)

\* jumps as in the tests jmpif_opcode and jmpifnot_opcode: register 0 is
\* the condition, location 100 lies past the end
jump_program == <<OpJump(2), OpTrap, OpJumpIfNot(0, 1), OpJumpIf(0, 100)>>
branch_program == <<OpJumpIf(0, 2), OpJumpIfNot(0, 100), OpMov(1, 0)>>
\* the shape of the test call_and_return_opcodes: a function at 2 that
\* calls itself once more while register 0 is zero
call_program ==
    <<OpCall(2), OpJump(100),
      OpJumpIf(0, 5), OpConst(0, 1), OpCall(2), OpReturn>>
\* a Call as the last opcode: its Return goes past the end
tail_call_program == <<OpJump(2), OpReturn, OpCall(1)>>
\* a Return without a Call, and a Call to a location past the end
stray_return_program == <<OpJumpIf(0, 2), OpReturn, OpCall(100)>>
\* a foreign call with a register, a HeapArray and a HeapVector input
inputs_program ==
    <<OpConst(1, 1),
      OpForeignCall("sum", <<RegisterIndex(2)>>,
                    <<RegisterIndex(0), HeapArray(1, 2), HeapVector(1, 0)>>)>>

\* a Load, a Store through the same pointer (register 0), a Load of the
\* stored cell, and a Stop that is not the last opcode
load_store_program ==
    <<OpLoad(2, 0), OpConst(1, 6), OpStore(0, 1), OpLoad(1, 0), OpStop, OpConst(1, 7)>>

\* a foreign call that fills a vector at Mem[R[r0]] and sets its size in
\* register 1, which holds 9 before
vector_program ==
    <<OpConst(1, 9), OpForeignCall("v", <<HeapVector(0, 1)>>, <<RegisterIndex(0)>>)>>

\* the bytecode given to VM::new
BytecodePool ==
    {vector_program, load_store_program, double_program, double_then_mov, two_calls, array_program, array_then_stop,
     jump_program, branch_program, call_program, tail_call_program,
     stray_return_program, inputs_program, <<>>}

\* the memory given to VM::new
MemoryPool == {<<>>, <<7, 8, 9, 4>>}

\* the registers given to VM::new
RegistersPool == {EmptyRegisters, registers_set(EmptyRegisters, 0, 3)}

\* the results a caller hands to the VM
VMResultPool ==
    {ForeignCallResult(<<Single(10)>>),
     ForeignCallResult(<<>>),
     ForeignCallResult(<<Single(1), Single(2)>>),
     ForeignCallResult(<<Array(<<1, 2>>)>>),
     ForeignCallResult(<<Array(<<1>>)>>)}

\* no session is run
SessionIdle ==
    /\ opcodes = <<>>
    /\ witness_map = EmptyWitnessMap
    /\ pending_foreign_calls = <<>>
    /\ block_solvers = [k \in {} |-> BlockSolver_default]
    /\ status = StatusNone
    /\ last_call = "new"
    /\ calls = 0
    /\ rounds = <<>>
    /\ surfaced = <<>>
    /\ attached = <<>>
    /\ circuit = <<>>

session_vars == <<opcodes, witness_map, pending_foreign_calls, block_solvers,
                  status, last_call, calls, rounds, surfaced, attached, circuit>>

\* VM::new: the caller may hand over results it already has
InitVM ==
    /\ \E registers \in RegistersPool, bytecode \in BytecodePool,
          memory \in MemoryPool,
          results \in {<<>>} \cup {<<r>> : r \in VMResultPool} :
          vm = VM_new(registers, memory, bytecode, results)
    /\ vm_call = "new"
    /\ executed = <<>>
    /\ SessionIdle
    /\ ProbeIdle

\* the opcode the program counter points at
current_opcode(v) == v.bytecode[v.program_counter + 1]

\* the VM is at a ForeignCall whose result it holds
at_answered_call(v) ==
    /\ v.program_counter < Len(v.bytecode)
    /\ current_opcode(v).op = "ForeignCall"
    /\ v.foreign_call_counter < Len(v.foreign_call_results)

\* the VM is at a ForeignCall whose result it does not hold
at_unanswered_call(v) ==
    /\ v.program_counter < Len(v.bytecode)
    /\ current_opcode(v).op = "ForeignCall"
    /\ v.foreign_call_counter >= Len(v.foreign_call_results)

\* the outcome of the output loop for the result the VM is about to use
outputs_written(v) ==
    WriteForeignCallOutputs(v, current_opcode(v).destinations, current_values(v), 1)

\* the result the VM is about to use fits the destinations of the opcode
result_accepted(v) ==
    /\ ~outputs_written(v).panic
    /\ ~outputs_written(v).invalid
    /\ Len(current_opcode(v).destinations) = Len(current_values(v))

\* the log of accepted foreign calls after one process_opcode() on v
step_log(v, log) ==
    IF at_answered_call(v) /\ result_accepted(v)
    THEN Append(log, v.program_counter) ELSE log

RECURSIVE run_log(_, _)
\* the log of accepted foreign calls after process_opcodes() on v
run_log(v, log) ==
    IF halts(process_opcode(v)) THEN step_log(v, log)
    ELSE run_log(process_opcode(v), step_log(v, log))

\* the caller may step or run the VM: it has not halted, and when it waits
\* for a foreign call the caller has pushed the result
Runnable(v) ==
    \/ v.status.tag = "InProgress"
    \/ v.status.tag = "ForeignCallWait"
         /\ v.foreign_call_counter < Len(v.foreign_call_results)

\* VM::process_opcode
VMProcessOpcode ==
    /\ Runnable(vm)
    /\ vm' = process_opcode(vm)
    /\ vm_call' = "process_opcode"
    /\ executed' = step_log(vm, executed)
    /\ UNCHANGED <<session_vars, probe>>

\* VM::process_opcodes
VMProcessOpcodes ==
    /\ Runnable(vm)
    /\ vm' = process_opcodes(vm)
    /\ vm_call' = "process_opcodes"
    /\ executed' = run_log(vm, executed)
    /\ UNCHANGED <<session_vars, probe>>

\* the caller appends the result of the foreign call the VM waits for
VMPushResult(foreign_call_result) ==
    /\ vm.status.tag = "ForeignCallWait"
    /\ vm.foreign_call_counter >= Len(vm.foreign_call_results)
    /\ vm' = [vm EXCEPT !.foreign_call_results =
                  Append(vm.foreign_call_results, foreign_call_result)]
    /\ vm_call' = "push"
    /\ UNCHANGED <<executed, session_vars, probe>>

NextVM ==
    \/ VMProcessOpcode
    \/ VMProcessOpcodes
    \/ \E r \in VMResultPool : VMPushResult(r)

SpecVM == InitVM /\ [][NextVM]_vars

\* -------------------------------------------- insert_value on its own
\* a witness map to insert into
InitInsert ==
    /\ \E m \in InitialWitnessMaps : probe = [fn |-> "new", witness_map |-> m]
    /\ SessionIdle
    /\ VMIdle

\* insert_value(witness, value_to_insert, &mut map) on the map of the probe
InsertValue(witness, value_to_insert) ==
    /\ \E ins \in {insert_value(witness, value_to_insert, probe.witness_map)} :
          probe' = [fn |-> "insert_value",
                    witness |-> witness,
                    value_to_insert |-> value_to_insert,
                    initial_witness |-> probe.witness_map,
                    ok |-> ins.ok,
                    witness_map |-> ins.witness_map]
    /\ UNCHANGED <<session_vars, vm, vm_call, executed>>

NextInsert == \E w \in Witnesses, v \in Field : InsertValue(w, v)

SpecInsert == InitInsert /\ [][NextInsert]_vars

\* ------------------------------------------------- one round on its own
\* the opcodes a round is run on
RoundOpcodePool == OpcodePool \cup {K2}

\* the witness maps a round is run on
RoundMaps == [Witnesses -> {NoValue, 3, 4}]

\* the for loop of ACVM::solve over the opcodes a, b of a new session whose
\* witness map is initial_witness
round_of(a, b, initial_witness) ==
    SolveRound(<<OpcodeEntry(1, a), OpcodeEntry(2, b)>>, 1,
               RoundStart([witness_map |-> initial_witness,
                           block_solvers |-> [k \in {} |-> BlockSolver_default],
                           pending_foreign_calls |-> <<>>]))

\* what is kept of a round: the witness map and the fatal error, if any
round_outcome(round) == [witness_map |-> round.witness_map, err |-> round.err]

InitRound ==
    /\ probe = [fn |-> "new"]
    /\ SessionIdle
    /\ VMIdle

\* one round over a then b, and one over b then a, from the same map
RunRound(a, b, initial_witness) ==
    /\ probe.fn = "new"
    /\ probe' = [fn |-> "round",
                 first |-> a,
                 second |-> b,
                 initial_witness |-> initial_witness,
                 forward |-> round_outcome(round_of(a, b, initial_witness)),
                 backward |-> round_outcome(round_of(b, a, initial_witness))]
    /\ UNCHANGED <<session_vars, vm, vm_call, executed>>

NextRound ==
    \E a \in RoundOpcodePool, b \in RoundOpcodePool, m \in RoundMaps :
        RunRound(a, b, m)

SpecRound == InitRound /\ [][NextRound]_vars

\* --------------------------------------------------------------- typing
TypeOK ==
    /\ calls \in 0 .. MaxCalls
    /\ \A w \in Witnesses : witness_map[w] \in Field \cup {NoValue}
    /\ status.tag \in {"None", "Solved", "RequiresForeignCall", "Err",
                       "Resolved", "Panic", "Finalized", "RoundLimit"}

\* ------------------------------- the dispatchers and predicates alone
\* the black box calls of the model
range_call == BlackBoxFunc("RANGE", <<FunctionInput(1, 2)>>, <<>>)
sha256_call == BlackBoxFunc("SHA256", <<FunctionInput(1, 8)>>, <<2, 3>>)
schnorr_call ==
    BlackBoxFunc("SchnorrVerify", <<FunctionInput(2, 8), FunctionInput(1, 8)>>, <<3>>)
aggregation_call ==
    BlackBoxFunc("RecursiveAggregation",
                 <<FunctionInput(3, 8), FunctionInput(1, 8), FunctionInput(2, 8)>>, <<>>)
BlackBoxPool == {range_call, sha256_call, schnorr_call, aggregation_call}

\* the gadget calls given to the legacy hash functions
GadgetPool ==
    {GadgetCall("SHA256", <<FunctionInput(1, 8)>>, <<2, 3>>),
     GadgetCall("Blake2s", <<FunctionInput(1, 8)>>, <<2, 3>>),
     GadgetCall("Blake2s", <<FunctionInput(1, 16)>>, <<3, 2>>),
     GadgetCall("SHA256", <<FunctionInput(2, 8), FunctionInput(1, 8)>>, <<3, 1>>),
     GadgetCall("SHA256", <<FunctionInput(1, 8), FunctionInput(2, 8)>>, <<3>>)}

\* the opcodes and languages the support predicate is asked about
SupportPool ==
    RoundOpcodePool
    \cup {ROM(K1.block), RAM(K1.block), Directive("Invert")}
    \cup {BlackBoxFuncCall(b) : b \in BlackBoxPool}
Languages == {R1CS, PLONKCSat(3), PLONKCSat(4)}

\* the witness maps the functions are called on
DispatchMaps == [Witnesses -> {NoValue, 1, 5}]

InitDispatch ==
    /\ \E m \in DispatchMaps : probe = [fn |-> "new", witness_map |-> m]
    /\ SessionIdle
    /\ VMIdle

\* default_is_opcode_supported(language)(&opcode)
IsOpcodeSupported(language, opcode) ==
    /\ probe.fn = "new"
    /\ probe' = [fn |-> "default_is_opcode_supported",
                 language |-> language,
                 opcode |-> opcode,
                 supported |-> default_is_opcode_supported(language, opcode)]
    /\ UNCHANGED <<session_vars, vm, vm_call, executed>>

\* blackbox::solve(backend, &mut map, bb_func) on the map of the probe
BlackBoxSolve(bb_func) ==
    /\ probe.fn = "new"
    /\ \E r \in {blackbox_solve(probe.witness_map, bb_func)} :
          probe' = [fn |-> "blackbox_solve",
                    bb_func |-> bb_func,
                    initial_witness |-> probe.witness_map,
                    witness_map |-> r.witness_map,
                    resolution |-> r.resolution,
                    invoked |-> r.invoked]
    /\ UNCHANGED <<session_vars, vm, vm_call, executed>>

\* sha256(&mut map, gadget_call) / blake2s(&mut map, gadget_call) of the
\* legacy hash module on the map of the probe
LegacyHash(gadget_call) ==
    /\ probe.fn = "new"
    /\ \E r \in {legacy_hash(gadget_call.name, probe.witness_map, gadget_call)} :
          probe' = [fn |-> "legacy_hash",
                    gadget_call |-> gadget_call,
                    initial_witness |-> probe.witness_map,
                    witness_map |-> r.witness_map,
                    result |-> IF r.panic THEN <<>>
                               ELSE finalize(gadget_call.name,
                                        hashed_bytes(probe.witness_map,
                                                     gadget_call.inputs, 1)),
                    panic |-> r.panic]
    /\ UNCHANGED <<session_vars, vm, vm_call, executed>>

\* the trace entries of the model: writes of a constant and of w1, reads
\* into w3 at a constant index and at the index w2
write_0_4 == MemOp(1, Expr(0, <<>>), Expr(4, <<>>))
write_0_5 == MemOp(1, Expr(0, <<>>), Expr(5, <<>>))
write_1_w1 == MemOp(1, Expr(1, <<>>), Expr(0, <<Term(1, 1)>>))
read_0_w3 == MemOp(0, Expr(0, <<>>), Expr(0, <<Term(1, 3)>>))
read_1_w3 == MemOp(0, Expr(1, <<>>), Expr(0, <<Term(1, 3)>>))
read_w2_w3 == MemOp(0, Expr(0, <<Term(1, 2)>>), Expr(0, <<Term(1, 3)>>))
MemOpPool == {write_0_4, write_0_5, write_1_w1, read_0_w3, read_1_w3, read_w2_w3}

\* longest trace of a block
MaxTrace == 3

TracePool == UNION {[1 .. n -> MemOpPool] : n \in 0 .. MaxTrace}

\* BlockSolver::default().solve(&mut map, trace) on the map of the probe
SolveBlock(trace) ==
    /\ probe.fn = "new"
    /\ \E r \in {BlockSolver_solve(BlockSolver_default, probe.witness_map, trace)} :
          probe' = [fn |-> "block_solve",
                    trace |-> trace,
                    initial_witness |-> probe.witness_map,
                    witness_map |-> r.witness_map,
                    solver |-> r.solver,
                    resolution |-> r.resolution]
    /\ UNCHANGED <<session_vars, vm, vm_call, executed>>

\* the expressions of the model: a constant and up to two terms over
\* distinct witnesses, a coefficient being 0, 2 or 10 (= -1)
TermPool == {Term(coef, w) : coef \in {0, 2, 10}, w \in Witnesses}
ExprPool ==
    {Expr(q_c, terms) :
        q_c \in {0, 4, 7},
        terms \in {<<>>} \cup {<<t>> : t \in TermPool}
                 \cup {p \in {<<t, u>> : t \in TermPool, u \in TermPool} :
                           p[1].w # p[2].w}}

\* ArithmeticSolver::solve(&mut map, expr) on the map of the probe
ArithmeticSolve(expr) ==
    /\ probe.fn = "new"
    /\ \E r \in {ArithmeticSolver_solve(probe.witness_map, expr)} :
          probe' = [fn |-> "arithmetic_solve",
                    expr |-> expr,
                    initial_witness |-> probe.witness_map,
                    witness_map |-> r.witness_map,
                    resolution |-> r.resolution]
    /\ UNCHANGED <<session_vars, vm, vm_call, executed>>

\* the inputs, outputs and witness counters the keccak256 fallback is
\* called with
KeccakInputPool ==
    {<<>>,
     <<[expr |-> Expr(0, <<Term(1, 1)>>), num_bits |-> 8]>>,
     <<[expr |-> Expr(0, <<Term(1, 1)>>), num_bits |-> 8],
       [expr |-> Expr(0, <<Term(1, 2)>>), num_bits |-> 12]>>}
KeccakOutputPool == {<<>>, <<3>>, <<3, 4>>}
KeccakCounters == {5, 6}

\* keccak256(inputs, outputs, num_witness)
Keccak256(inputs, outputs, num_witness) ==
    /\ probe.fn = "new"
    /\ \E r \in {keccak256(inputs, outputs, num_witness)} :
          probe' = [fn |-> "keccak256",
                    inputs |-> inputs,
                    outputs |-> outputs,
                    num_witness |-> num_witness,
                    returned |-> r]
    /\ UNCHANGED <<session_vars, vm, vm_call, executed>>

NextDispatch ==
    \/ \E expr \in ExprPool : ArithmeticSolve(expr)
    \/ \E inputs \in KeccakInputPool, outputs \in KeccakOutputPool,
          num_witness \in KeccakCounters : Keccak256(inputs, outputs, num_witness)
    \/ \E language \in Languages, opcode \in SupportPool :
          IsOpcodeSupported(language, opcode)
    \/ \E bb_func \in BlackBoxPool : BlackBoxSolve(bb_func)
    \/ \E gadget_call \in GadgetPool : LegacyHash(gadget_call)
    \/ \E trace \in TracePool : SolveBlock(trace)

SpecDispatch == InitDispatch /\ [][NextDispatch]_vars

\* ------------------------------------------------------- shared notions
\* the step is a call of solve() / resolve_pending_foreign_call()
IsSolveStep == last_call' = "solve" /\ calls' = calls + 1
IsResolveStep == last_call' = "resolve" /\ calls' = calls + 1

\* the last round of the last solve()
LastRound == rounds[Len(rounds)]

\* the visits of a round that reported Stalled
StalledVisits(round) == SelectSeq(round.visits, LAMBDA v : v.resolution.tag = "Stalled")

\* the visits of a round whose opcode is kept for the next round
RetainedVisits(round) ==
    SelectSeq(round.visits, LAMBDA v : v.resolution.tag \in {"Stalled", "InProgress"})

\* the ids of a list of visits
VisitIds(visits) == [k \in 1 .. Len(visits) |-> visits[k].id]

\* ------------------------------------------------------------------- C1
\* C1: solve() never returns Solved while a foreign call is pending: when
\* a call is pending at its return, the result is RequiresForeignCall.
C1_NoSolvedWhilePending ==
    (last_call = "solve" /\ status = StatusSolved) => Len(pending_foreign_calls) = 0

\* ------------------------------------------------------------------- C2
\* C2: finalize() returns the witness map exactly when remaining is empty
\* and no foreign call is pending, and is rejected in every other state.
C2_FinalizeIffSolved ==
    last_call = "finalize" =>
        (status.tag = "Finalized"
            <=> (Len(opcodes) = 0 /\ Len(pending_foreign_calls) = 0))

\* ------------------------------------------------------------------- C3
\* C3: a round that ends with remaining non-empty, nothing pending and only
\* Stalled resolutions makes solve() fail with OpcodeNotSolvable(r), r being
\* the reason of the first stalled opcode of that round; no other reason
\* (a later opcode's, an earlier round's) is ever reported.
C3_FirstStallReported ==
    (last_call = "solve" /\ Len(rounds) > 0) =>
        /\ (/\ Len(LastRound.visits) = Len(LastRound.before)
            /\ \A k \in 1 .. Len(LastRound.visits) :
                    LastRound.visits[k].resolution.tag = "Stalled"
            /\ Len(pending_foreign_calls) = 0)
           => status = StatusErr(OpcodeNotSolvableErr(
                          LastRound.visits[1].resolution.reason))
        /\ (status.tag = "Err" /\ status.err.tag = "OpcodeNotSolvable")
           => /\ Len(StalledVisits(LastRound)) > 0
              /\ status.err.reason = StalledVisits(LastRound)[1].resolution.reason

\* a stalled solve() whose last round has two different stall reasons and
\* whose first round stalled on yet another reason
C3_Witness ==
    /\ last_call = "solve"
    /\ status.tag = "Err"
    /\ status.err.tag = "OpcodeNotSolvable"
    /\ Len(rounds) >= 2
    /\ Len(StalledVisits(LastRound)) >= 2
    /\ StalledVisits(LastRound)[2].resolution.reason # status.err.reason
    /\ Len(StalledVisits(rounds[1])) > 0
    /\ StalledVisits(rounds[1])[1].resolution.reason # status.err.reason

\* ------------------------------------------------------------------- C4
\* C4: a fatal error of a sub-solver is returned by solve() at once: the
\* failing visit is the last visit of the last round and its error is the
\* value returned.
C4_FatalErrorAborts ==
    last_call = "solve" =>
        \A i \in 1 .. Len(rounds) : \A k \in 1 .. Len(rounds[i].visits) :
            rounds[i].visits[k].resolution.tag = "Err" =>
                /\ i = Len(rounds)
                /\ k = Len(rounds[i].visits)
                /\ status = StatusErr(rounds[i].visits[k].resolution.err)

\* a fatal error in the middle of a round: opcodes were visited before
\* the failing one and opcodes after it were left unvisited
C4_Witness ==
    /\ last_call = "solve"
    /\ status.tag = "Err"
    /\ status.err.tag # "OpcodeNotSolvable"
    /\ Len(rounds) > 0
    /\ Len(LastRound.visits) >= 2
    /\ Len(LastRound.visits) < Len(LastRound.before)

\* ------------------------------------------------------------------- C5
\* C5: in every session state, also after solve() returned an error, an
\* opcode suspended in pending_foreign_calls is not in opcodes as well.
C5_PendingNotInRemaining ==
    \A i \in 1 .. Len(pending_foreign_calls) : \A j \in 1 .. Len(opcodes) :
        pending_foreign_calls[i].id # opcodes[j].id

\* ------------------------------------------------------------------- C6
\* the Brillig calls held by the session (in opcodes and in pending), as
\* pairs of opcode id and foreign_call_results
HeldResults(ops, pending) ==
    {<<ops[k].id, ops[k].opcode.brillig.foreign_call_results>> :
        k \in {j \in 1 .. Len(ops) : ops[j].opcode.kind = "Brillig"}}
    \cup {<<pending[k].id, pending[k].brillig.foreign_call_results>> :
        k \in 1 .. Len(pending)}

\* C6: resolve_pending_foreign_call(result) removes the first pending call,
\* appends result as the last of that opcode's foreign_call_results (which
\* change in no other step), inserts the opcode at index 0 of opcodes and
\* keeps the order of the other pending calls and opcodes; the resumed
\* opcode is the first one visited by the next solve().
C6_ResolveEffect ==
    [][/\ IsResolveStep =>
            /\ Len(pending_foreign_calls) > 0
            /\ pending_foreign_calls' = Tail(pending_foreign_calls)
            /\ Tail(opcodes') = opcodes
            /\ opcodes'[1].id = pending_foreign_calls[1].id
            /\ opcodes'[1].opcode.kind = "Brillig"
            /\ LET old == pending_foreign_calls[1].brillig
                   new == opcodes'[1].opcode.brillig
               IN  /\ new.foreign_call_results =
                          Append(old.foreign_call_results,
                                 attached'[Len(attached')].result)
                   /\ new.bytecode = old.bytecode
                   /\ new.inputs = old.inputs
                   /\ new.outputs = old.outputs
       /\ ~IsResolveStep =>
            HeldResults(opcodes', pending_foreign_calls')
                \subseteq HeldResults(opcodes, pending_foreign_calls)
       /\ (last_call = "resolve" /\ IsSolveStep) =>
            /\ Len(rounds') > 0
            /\ rounds'[1].visits[1].id = opcodes[1].id
      ]_vars

\* a second result has been attached to an opcode while another call is
\* pending and another opcode remains
C6_Witness ==
    /\ last_call = "resolve"
    /\ Len(opcodes) >= 2
    /\ Len(pending_foreign_calls) >= 1
    /\ Len(opcodes[1].opcode.brillig.foreign_call_results) = 2
    /\ opcodes[1].opcode.brillig.foreign_call_results[1]
         # opcodes[1].opcode.brillig.foreign_call_results[2]

\* ------------------------------------------------------------------- C7
\* C7: foreign calls are answered in order: the pending calls are the
\* surfaced calls not yet resolved, oldest first, so the call reported by
\* get_pending_foreign_call() is the oldest of them and the N-th result is
\* attached to the N-th surfaced call.
C7_AnsweredInOrder ==
    /\ Len(attached) <= Len(surfaced)
    /\ \A n \in 1 .. Len(attached) :
          /\ attached[n].id = surfaced[n].id
          /\ attached[n].info = surfaced[n].info
    /\ Len(pending_foreign_calls) = Len(surfaced) - Len(attached)
    /\ \A k \in 1 .. Len(pending_foreign_calls) :
          /\ pending_foreign_calls[k].id = surfaced[Len(attached) + k].id
          /\ pending_foreign_calls[k].foreign_call_wait_info
                = surfaced[Len(attached) + k].info
    /\ get_pending_foreign_call(pending_foreign_calls) =
          IF Len(surfaced) > Len(attached)
          THEN [tag |-> "Some", info |-> surfaced[Len(attached) + 1].info]
          ELSE [tag |-> "None"]

\* two opcodes suspended in the same round, both were answered, and a
\* resumed opcode has suspended again
C7_Witness ==
    /\ Len(attached) >= 2
    /\ Len(surfaced) >= 3
    /\ surfaced[1].id # surfaced[2].id
    /\ surfaced[1].info # surfaced[2].info
    /\ \E i \in 1 .. 2 : surfaced[3].id = surfaced[i].id
    /\ Len(pending_foreign_calls) = 1

\* ------------------------------------------------------------------- C8
\* C8: every round visits the remaining opcodes in list order, each once
\* (a round cut short by a fatal error stops at the failing opcode), and
\* the opcodes retained for the next round (Stalled or InProgress) keep
\* their relative order.
C8_VisitOrder ==
    last_call = "solve" =>
        \A i \in 1 .. Len(rounds) :
            LET r == rounds[i]
                n == Len(r.visits)
                aborted == n > 0 /\ r.visits[n].resolution.tag = "Err"
            IN  /\ VisitIds(r.visits) = SubSeq(r.before, 1, n)
                /\ n < Len(r.before) => aborted
                /\ ~aborted => r.after = VisitIds(RetainedVisits(r))
                /\ i < Len(rounds) => rounds[i + 1].before = r.after
                /\ i = Len(rounds) => Ids(opcodes) = r.after

\* a first round that drops an opcode and retains a stalled and an
\* in-progress one, followed by a second round over the retained ones
C8_Witness ==
    /\ last_call = "solve"
    /\ Len(rounds) >= 2
    /\ Len(rounds[1].before) = 3
    /\ Len(rounds[1].after) = 2
    /\ \E k \in 1 .. 3 : rounds[1].visits[k].resolution.tag = "InProgress"
    /\ \E k \in 1 .. 3 : rounds[1].visits[k].resolution.tag = "Stalled"
    /\ Len(rounds[2].visits) = 2

\* ------------------------------------------------------------------- C9
\* the length of remaining does not grow in any round of the solve() just
\* made that suspended no opcode
NoGrowthInRounds(rs) ==
    \A i \in 1 .. Len(rs) :
        (\A k \in 1 .. Len(rs[i].visits) :
            rs[i].visits[k].resolution.tag # "InProgressBrillig")
        => Len(rs[i].after) <= Len(rs[i].before)

\* C9 as stated: the length of remaining never increases in a round that
\* suspends no opcode, and strictly decreases over any solve() call that
\* returns Solved.
C9_Original ==
    [][IsSolveStep =>
          /\ NoGrowthInRounds(rounds')
          /\ status' = StatusSolved => Len(opcodes') < Len(opcodes)]_vars

\* C9 (amended): the length of remaining never increases in a round that
\* suspends no opcode; a solve() call that returns Solved leaves remaining
\* empty, which is a strict decrease exactly when remaining was non-empty
\* at entry.
C9_Amended ==
    [][IsSolveStep =>
          /\ NoGrowthInRounds(rounds')
          /\ status' = StatusSolved =>
                /\ Len(opcodes') = 0
                /\ Len(opcodes) > 0 => Len(opcodes') < Len(opcodes)]_vars

\* a solve() that returned Solved after several rounds, one of which
\* retained opcodes
C9_Witness ==
    /\ last_call = "solve"
    /\ status = StatusSolved
    /\ Len(rounds) >= 2
    /\ Len(rounds[1].after) >= 1
    /\ Len(rounds[1].after) < Len(rounds[1].before)
    /\ Len(opcodes) = 0

\* ------------------------------------------------------------------ C10
\* C10: once a witness is assigned in the witness map it keeps that value
\* in every later state, also after a conflicting insertion was rejected.
C10_WriteOnce ==
    [][\A w \in Witnesses :
          witness_map[w] # NoValue => witness_map'[w] = witness_map[w]]_vars

\* ------------------------------------------------------------------ C11
\* C11: insert_value(w, v, M) returns Ok when w is unassigned in M or
\* already holds v, and returns the error UnsatisfiedConstrain exactly when
\* w already holds a value different from v.
C11_InsertResult ==
    probe.fn = "insert_value" =>
        (probe.ok <=>
            \/ probe.initial_witness[probe.witness] = NoValue
            \/ probe.initial_witness[probe.witness] = probe.value_to_insert)

\* an insertion of a second, different value for an assigned witness, which
\* was rejected
C11_Witness ==
    /\ probe.fn = "insert_value"
    /\ probe.initial_witness[probe.witness] # NoValue
    /\ probe.initial_witness[probe.witness] # probe.value_to_insert
    /\ ~probe.ok

\* ------------------------------------------------------------------ C12
\* the visits of a list of visits in which the opcode id reported InProgress
InProgressVisits(visits, id) ==
    SelectSeq(visits, LAMBDA v : v.id = id /\ v.resolution.tag = "InProgress")

\* the round shrank remaining or suspended an opcode
ShrinksOrSuspends(round) ==
    \/ Len(round.after) < Len(round.before)
    \/ \E k \in 1 .. Len(round.visits) :
           round.visits[k].resolution.tag = "InProgressBrillig"

Circuit2(a, b) == <<OpcodeEntry(1, a), OpcodeEntry(2, b)>>

\* the map {w1: 3, w2: 7}
ChainSolution == [EmptyWitnessMap EXCEPT ![1] = 3, ![2] = 7]

\* C13: deferred resolution.  From an empty map the chain w1 - 3 = 0,
\* w2 - w1 - 4 = 0 ends Solved with M = {w1: 3, w2: 7} in either opcode
\* order: in order, one round solves both (the assignment of w1 is seen by
\* the second opcode in the same round); swapped, round 1 stalls
\* w2 - w1 - 4 = 0 and retains it, solves w1 - 3 = 0, and round 2 solves the
\* retained opcode.
C13_DeferredResolution ==
    [][(IsSolveStep /\ calls = 0 /\ witness_map = EmptyWitnessMap) =>
          /\ opcodes = Circuit2(A1, A2) =>
                /\ status' = StatusSolved
                /\ witness_map' = ChainSolution
                /\ Len(rounds') = 1
                /\ rounds'[1].visits =
                      <<[id |-> 1, resolution |-> ResSolved],
                        [id |-> 2, resolution |-> ResSolved]>>
          /\ opcodes = Circuit2(A2, A1) =>
                /\ status' = StatusSolved
                /\ witness_map' = ChainSolution
                /\ Len(rounds') = 2
                /\ rounds'[1].visits[1].id = 1
                /\ rounds'[1].visits[1].resolution.tag = "Stalled"
                /\ rounds'[1].visits[2] = [id |-> 2, resolution |-> ResSolved]
                /\ rounds'[1].after = <<1>>
                /\ rounds'[2].visits = <<[id |-> 1, resolution |-> ResSolved]>>
      ]_vars

\* the swapped chain has been solved from an empty map in two rounds
C13_Witness ==
    /\ circuit = Circuit2(A2, A1)
    /\ last_call = "solve"
    /\ calls = 1
    /\ Len(rounds) = 2
    /\ rounds[1].visits[1].resolution.tag = "Stalled"
    /\ status = StatusSolved
    /\ witness_map = ChainSolution

\* ------------------------------------------------------------------ C14
\* the witnesses named by an expression
ExprWitnesses(expr) ==
    {expr.linear_combinations[k].w : k \in 1 .. Len(expr.linear_combinations)}

\* the witnesses an opcode touches
WitnessesOf(opcode) ==
    CASE opcode.kind = "Arithmetic" -> ExprWitnesses(opcode.expr)
      [] opcode.kind = "Brillig" ->
            {opcode.brillig.inputs[k] : k \in 1 .. Len(opcode.brillig.inputs)}
            \cup {opcode.brillig.outputs[k] : k \in 1 .. Len(opcode.brillig.outputs)}
      [] opcode.kind = "Block" ->
            UNION {ExprWitnesses(opcode.block.trace[k].index)
                       \cup ExprWitnesses(opcode.block.trace[k].value) :
                   k \in 1 .. Len(opcode.block.trace)}

\* the two opcodes of the probe touch disjoint witness sets
DisjointPair ==
    /\ probe.fn = "round"
    /\ WitnessesOf(probe.first) \cap WitnessesOf(probe.second) = {}

SameBlock ==
    /\ probe.first.kind = "Block"
    /\ probe.second.kind = "Block"
    /\ probe.first.block.id = probe.second.block.id

ConflictingCircuit == circuit \in {Circuit2(A1, A3), Circuit2(A3, A1)}

\* C15: a circuit whose arithmetic opcodes force two distinct values on
\* the same witness (w1 - 3 = 0 and w1 - 4 = 0, in either order) makes
\* every solve() fail with the fatal error UnsatisfiedConstrain and never
\* ends Solved.
C15_ConflictFails ==
    ConflictingCircuit =>
        /\ status # StatusSolved
        /\ last_call = "solve" => status = StatusErr(UnsatisfiedConstrain)

\* solve() has failed on w1 - 4 = 0, w1 - 3 = 0 from an empty map: the
\* first opcode assigned w1 and the second one failed
C15_Witness ==
    /\ circuit = Circuit2(A3, A1)
    /\ last_call = "solve"
    /\ status = StatusErr(UnsatisfiedConstrain)
    /\ Len(rounds) = 1
    /\ rounds[1].visits[1].resolution = ResSolved
    /\ witness_map[1] = 4

\* ------------------------------------------------------------------ C16
\* the number of ForeignCall opcodes of a bytecode
ForeignCallCount(bytecode) ==
    Len(SelectSeq(bytecode, LAMBDA o : o.op = "ForeignCall"))

\* the session was made of one Brillig opcode whose inputs are assigned
OneBrillig ==
    /\ Len(circuit) = 1
    /\ circuit[1].opcode.kind = "Brillig"
    /\ MissingInputs(witness_map, circuit[1].opcode.brillig.inputs) = <<>>

\* no output of the opcode is assigned another value than the one the
\* finished VM holds for it
OutputsFit ==
    InsertOutputs(witness_map, circuit[1].opcode.brillig.outputs,
        run_brillig(witness_map, opcodes[1].opcode.brillig).registers, 1).ok

\* so far every solve() was followed by one resolve_pending_foreign_call()
\* whose result was one value for a register
AnsweredInTurn ==
    /\ calls = 2 * Len(attached)
    /\ \A n \in 1 .. Len(attached) :
          /\ Len(attached[n].result.values) = 1
          /\ attached[n].result.values[1].kind = "Single"

IsVMStep == vm_call' \in {"process_opcode", "process_opcodes"} /\ vm' # vm

\* C17: when the VM reaches a ForeignCall opcode and holds no result for it
\* (foreign_call_counter >= |foreign_call_results|), the step sets the
\* status to ForeignCallWait with the function and the resolved inputs of
\* the opcode and leaves the program counter, the foreign call counter,
\* the registers, the memory and the call stack unchanged: the opcode to
\* execute on resume is the same ForeignCall.
C17_WaitLeavesVM ==
    [][(IsVMStep /\ at_unanswered_call(vm)) =>
          /\ vm'.status =
                VMForeignCallWait(current_opcode(vm).function,
                    [k \in 1 .. Len(current_opcode(vm).inputs) |->
                        get_register_value_or_memory_values(vm,
                            current_opcode(vm).inputs[k])])
          /\ vm'.program_counter = vm.program_counter
          /\ vm'.foreign_call_counter = vm.foreign_call_counter
          /\ vm'.registers = vm.registers
          /\ vm'.memory = vm.memory
          /\ vm'.call_stack = vm.call_stack
          /\ vm'.foreign_call_results = vm.foreign_call_results
          /\ vm'.bytecode = vm.bytecode
          /\ current_opcode(vm') = current_opcode(vm)
      ]_vars

\* the VM waits at its second foreign call, the first one having been
\* answered and executed
C17_Witness ==
    /\ vm.status.tag = "ForeignCallWait"
    /\ vm.program_counter = 1
    /\ vm.foreign_call_counter = 1
    /\ Len(vm.foreign_call_results) = 1
    /\ vm.status.function = "g"

\* ------------------------------------------------------------------ C18
\* C18: in every reachable VM state foreign_call_counter equals the number
\* of ForeignCall opcodes that have been fully (successfully) executed, and
\* no ForeignCall, suspended and resumed or not, is counted twice.
C18_CounterCountsExecuted ==
    /\ vm.foreign_call_counter = Len(executed)
    /\ \A i, j \in 1 .. Len(executed) : executed[i] = executed[j] => i = j

\* ------------------------------------------------------------------ C19
\* the result the VM is about to use has another number of outputs than
\* the opcode has destinations, or an array of another length than the
\* size of its HeapArray destination
result_mismatch(v) ==
    /\ ~outputs_written(v).panic
    /\ \/ outputs_written(v).invalid
       \/ Len(current_opcode(v).destinations) # Len(current_values(v))

\* C19: when a ForeignCall opcode consumes a result whose number of outputs
\* differs from its number of destinations, or whose array length differs
\* from the size of a HeapArray destination, the status after the step,
\* and the status process_opcodes() returns, is Failure, also when the
\* ForeignCall is the last opcode of the bytecode.
C19_MismatchFails ==
    [][(IsVMStep /\ at_answered_call(vm) /\ result_mismatch(vm)) =>
          vm'.status.tag = "Failure"]_vars

\* ------------------------------------------------------------------ C20
\* C20: a ForeignCall opcode advances foreign_call_counter by one and the
\* program counter by one only when its result is accepted; when the result
\* is rejected, both keep their values.
C20_AdvanceOnlyOnSuccess ==
    [][(vm_call' = "process_opcode" /\ vm' # vm /\ at_answered_call(vm)) =>
          IF result_accepted(vm)
          THEN /\ vm'.foreign_call_counter = vm.foreign_call_counter + 1
               /\ vm'.program_counter = vm.program_counter + 1
          ELSE /\ vm'.foreign_call_counter = vm.foreign_call_counter
               /\ vm'.program_counter = vm.program_counter
      ]_vars

\* ------------------------------------------------------------------ C21
\* the result the VM is about to use holds an Array for a register
\* destination, or a Single for a HeapArray or HeapVector destination
variant_mismatch(v) == outputs_written(v).panic

\* C21: a foreign-call result whose output variant does not fit its
\* destination is reported as a failure of the bytecode (status Failure)
\* and never crashes the VM.
C21_VariantMismatchFails ==
    [][(IsVMStep /\ at_answered_call(vm) /\ variant_mismatch(vm)) =>
          vm'.status.tag = "Failure"]_vars

\* ------------------------------------------------------------------ C22
\* C22: whenever the VM can be entered for a step (process_opcode() or
\* process_opcodes() on a VM that has not halted), the program counter is
\* below the length of the bytecode; this holds from VM::new on, for every
\* bytecode, the empty one included.
C22_EntryWithinBytecode ==
    Runnable(vm) => vm.program_counter < Len(vm.bytecode)

\* ------------------------------------------------------------------ C23
\* the step moved the program counter from inside the bytecode to its end
\* or past it
LeavesBytecode ==
    /\ IsVMStep
    /\ vm.program_counter < Len(vm.bytecode)
    /\ vm'.program_counter >= Len(vm'.bytecode)

\* C23: whenever a step sets the program counter to a value >= the length
\* of the bytecode, by running past the last opcode or by a Jump, JumpIf,
\* JumpIfNot, Call or Return whose target lies past the end, the VM status
\* is Finished at the end of that step.
C23_PastEndFinishes ==
    [][LeavesBytecode => vm'.status.tag = "Finished"]_vars

\* a Return to the location after a Call that is the last opcode has
\* finished the VM
C23_Witness ==
    /\ vm_call = "process_opcode"
    /\ vm.bytecode = tail_call_program
    /\ vm.program_counter = Len(tail_call_program)
    /\ vm.call_stack = <<>>
    /\ vm.status.tag = "Finished"

\* ------------------------------------------------------------------ C24
\* C24: process_opcodes() returns only when the VM is Finished, has failed,
\* or stands at a ForeignCall whose result is not yet available; a VM in
\* ForeignCallWait that is restarted after the caller appended the awaited
\* result executes that foreign call and the opcodes after it, and does not
\* report the answered wait again.
C24_RunsUntilHalted ==
    [][(vm_call' = "process_opcodes" /\ vm' # vm /\ vm'.status.tag # "Panic") =>
          \/ vm'.status.tag \in {"Finished", "Failure"}
          \/ vm'.status.tag = "ForeignCallWait" /\ at_unanswered_call(vm')]_vars

\* ------------------------------------------------------------------ C25
\* C25: the opcode-support predicate for R1CS accepts an opcode iff it is
\* Arithmetic, and the predicate for PLONK accepts every opcode except the
\* memory-block opcodes: every opcode kind that the solve loop hands to the
\* memory-block solver is rejected.
C25_SupportPredicate ==
    probe.fn = "default_is_opcode_supported" =>
        IF probe.language.tag = "R1CS"
        THEN probe.supported <=> probe.opcode.kind = "Arithmetic"
        ELSE probe.supported <=> ~uses_block_solver(probe.opcode)

\* ------------------------------------------------------------------ C26
\* input k of the call is the first one, in input order, that the map m
\* does not assign
FirstUnassigned(m, inputs, k) ==
    /\ ~contains_key(m, inputs[k].witness)
    /\ \A j \in 1 .. (k - 1) : contains_key(m, inputs[j].witness)

\* C26: for a black box call with at least one unassigned input witness the
\* dispatcher returns Stalled(MissingAssignment(w)), w being the first
\* unassigned input in input order; the witness map is unchanged and neither
\* a built-in function nor a backend hook is invoked.
C26_StallsOnFirstMissing ==
    probe.fn = "blackbox_solve" =>
        \A k \in 1 .. Len(probe.bb_func.inputs) :
            FirstUnassigned(probe.initial_witness, probe.bb_func.inputs, k) =>
                /\ probe.resolution =
                       ResStalled(MissingAssignment(probe.bb_func.inputs[k].witness))
                /\ probe.witness_map = probe.initial_witness
                /\ probe.invoked = "none"

\* the Schnorr call, whose inputs are the witnesses 2 and 1 in this order,
\* on a map that assigns neither: the stall names witness 2
C26_Witness ==
    /\ probe.fn = "blackbox_solve"
    /\ probe.bb_func = schnorr_call
    /\ ~contains_key(probe.initial_witness, 1)
    /\ ~contains_key(probe.initial_witness, 2)
    /\ probe.resolution = ResStalled(MissingAssignment(2))

\* ------------------------------------------------------------------ C27
\* C27: when a legacy hash function (sha256, blake2s) assigns its two
\* output witnesses, an output witness that already holds a value keeps
\* it: either the digest equals it, or the conflict is an error and the
\* entry is not silently overwritten.
C27_HashOutputsIdempotent ==
    (probe.fn = "legacy_hash" /\ ~probe.panic) =>
        \A k \in 1 .. Len(probe.gadget_call.outputs) :
            contains_key(probe.initial_witness, probe.gadget_call.outputs[k]) =>
                probe.witness_map[probe.gadget_call.outputs[k]]
                    = probe.initial_witness[probe.gadget_call.outputs[k]]

\* ------------------------------------------------------------------ C28
\* the list reported for the source input of a ForeignCall by the VM v
ReportedInput(v, input) ==
    CASE input.kind = "RegisterIndex" -> <<v.registers[input.a]>>
      [] input.kind = "HeapArray" ->
            [j \in 1 .. input.b |-> memory_read(v.memory, v.registers[input.a] + j - 1)]
      [] input.kind = "HeapVector" ->
            [j \in 1 .. v.registers[input.b] |->
                memory_read(v.memory, v.registers[input.a] + j - 1)]

\* C28: the inputs reported in ForeignCallWait hold one list per source of
\* the ForeignCall opcode, in source order: [R[i]] for a register source,
\* Mem[R[p] .. R[p]+n) for HeapArray(p, n) and Mem[R[p] .. R[p]+R[s]) for
\* HeapVector(p, s).
C28_ReportedInputs ==
    [][(IsVMStep /\ vm'.status.tag = "ForeignCallWait" /\ vm'.status # vm.status) =>
          /\ at_unanswered_call(vm')
          /\ vm'.status.function = current_opcode(vm').function
          /\ Len(vm'.status.inputs) = Len(current_opcode(vm').inputs)
          /\ \A k \in 1 .. Len(current_opcode(vm').inputs) :
                vm'.status.inputs[k] = ReportedInput(vm', current_opcode(vm').inputs[k])
      ]_vars

\* the call with a register, a HeapArray and a HeapVector source has
\* reported its inputs from a memory of four cells
C28_Witness ==
    /\ vm.bytecode = inputs_program
    /\ vm.memory = <<7, 8, 9, 4>>
    /\ vm.status.tag = "ForeignCallWait"
    /\ vm.status.inputs = <<<<3>>, <<8, 9>>, <<8, 9, 4>>>>

\* ------------------------------------------------------------------ C29
\* one process_opcode() step of a VM that stands on an opcode
IsOpcodeStep ==
    /\ vm_call' = "process_opcode"
    /\ vm' # vm
    /\ vm.program_counter < Len(vm.bytecode)

\* what the step does to the call stack, by the opcode it executes
CallStackStep ==
    CASE current_opcode(vm).op = "Call" ->
            /\ vm'.call_stack = Append(vm.call_stack, vm.program_counter + 1)
            /\ vm'.program_counter = current_opcode(vm).location
      [] current_opcode(vm).op = "Return" /\ vm.call_stack # <<>> ->
            /\ vm'.program_counter = vm.call_stack[Len(vm.call_stack)]
            /\ vm'.call_stack = SubSeq(vm.call_stack, 1, Len(vm.call_stack) - 1)
      [] current_opcode(vm).op = "Return" /\ vm.call_stack = <<>> ->
            /\ vm'.status.tag = "Failure"
            /\ vm'.call_stack = <<>>
      [] OTHER -> vm'.call_stack = vm.call_stack

\* C29: Call pushes pc + 1 on the call stack and jumps to its location;
\* Return pops the most recently pushed address into pc, so nested and
\* recursive calls return to the opcode after their own call site and a
\* program with matched calls ends with an empty call stack; Return on an
\* empty call stack halts the VM with Failure; no other opcode changes the
\* call stack.
C29_CallStack ==
    /\ [][IsOpcodeStep => CallStackStep]_vars
    /\ []((vm.bytecode = call_program /\ vm.status.tag = "Finished") =>
            vm.call_stack = <<>>)

\* the recursive program has finished after the function called itself:
\* register 0 was zero at the start and was set by the outer activation
C29_Witness ==
    /\ vm.bytecode = call_program
    /\ vm.status.tag = "Finished"
    /\ vm.registers[0] = 1
    /\ vm.call_stack = <<>>
    /\ vm_call = "process_opcode"

\* ------------------------------------------------------------------ C30
\* the program counter after a conditional jump that is taken or not
JumpsIff(taken) ==
    /\ vm'.program_counter =
          IF taken THEN current_opcode(vm).location ELSE vm.program_counter + 1
    /\ vm'.registers = vm.registers
    /\ vm'.memory = vm.memory
    /\ vm'.call_stack = vm.call_stack

\* C30: JumpIf sets pc to its location iff R[cond] is non-zero and
\* JumpIfNot sets pc to its location iff R[cond] is zero; otherwise pc is
\* incremented by one; both leave registers, memory and call stack
\* unchanged.
C30_ConditionalJumps ==
    [][IsOpcodeStep =>
          /\ current_opcode(vm).op = "JumpIf" =>
                JumpsIff(vm.registers[current_opcode(vm).condition] # 0)
          /\ current_opcode(vm).op = "JumpIfNot" =>
                JumpsIff(vm.registers[current_opcode(vm).condition] = 0)
      ]_vars

\* a JumpIf that was not taken, followed by a JumpIfNot that was taken to
\* a location past the end
C30_Witness ==
    /\ vm.bytecode = branch_program
    /\ vm.registers[0] = 0
    /\ vm.program_counter = 100
    /\ vm.status.tag = "Finished"
    /\ vm_call = "process_opcode"

\* ------------------------------------------------------------------ C31
\* the step changed nothing but the status
OnlyStatusChanged ==
    /\ vm'.registers = vm.registers
    /\ vm'.memory = vm.memory
    /\ vm'.program_counter = vm.program_counter
    /\ vm'.call_stack = vm.call_stack

\* the VM v has halted on a Stop or on a Trap and still stands on it
HaltedOn(v) ==
    IF v.status = VMFinished THEN current_opcode(v).op = "Stop"
    ELSE IF v.status = VMFailure("explicit trap hit in brillig")
    THEN current_opcode(v).op = "Trap"
    ELSE TRUE

\* C31: Stop halts the VM with status Finished and Trap halts it with
\* status Failure (explicit trap); the halting step leaves registers,
\* memory, pc and call stack unchanged, and process_opcodes() executes no
\* opcode after it: a run that ends Finished inside the bytecode, or with
\* the trap failure, stands on the Stop or the Trap.
C31_StopAndTrap ==
    /\ [][(IsOpcodeStep /\ current_opcode(vm).op = "Stop") =>
             vm'.status = VMFinished /\ OnlyStatusChanged]_vars
    /\ [][(IsOpcodeStep /\ current_opcode(vm).op = "Trap") =>
             vm'.status = VMFailure("explicit trap hit in brillig")
             /\ OnlyStatusChanged]_vars
    /\ [][(vm_call' = "process_opcodes" /\ vm' # vm
           /\ vm'.program_counter < Len(vm'.bytecode)) => HaltedOn(vm')]_vars

\* a run has halted on the Stop that is followed by a Const of register 1:
\* the register still holds the value set before the Stop
C31_Witness ==
    /\ vm_call = "process_opcodes"
    /\ vm.bytecode = load_store_program
    /\ vm.status = VMFinished
    /\ vm.program_counter = 4
    /\ vm.registers[1] = 6

\* ------------------------------------------------------------------ C32
\* the cell at address a of the memory, zero where nothing was written
Cell(memory, a) == IF a < Len(memory) THEN memory[a + 1] ELSE 0

\* the addresses that the memory of the VM before or after the step holds
Addresses == 0 .. (Len(vm.memory) + Len(vm'.memory))

\* the addresses of the array that the accepted foreign call of the step
\* writes through its HeapArray destination
WrittenRange ==
    {a \in Addresses :
        /\ a >= vm.registers[current_opcode(vm).destinations[1].a]
        /\ a < vm.registers[current_opcode(vm).destinations[1].a]
                 + current_opcode(vm).destinations[1].b}

\* C32: the memory of the VM is zero-extended: a Load from an address that
\* was never written gives zero; a Store at address a, also past the
\* current end, sets Mem[a] and leaves every other cell unchanged; a
\* foreign-call array written at an offset leaves all cells outside the
\* written range unchanged.
C32_ZeroExtendedMemory ==
    [][IsOpcodeStep =>
          /\ current_opcode(vm).op = "Load" =>
                /\ vm'.registers[current_opcode(vm).destination] =
                       Cell(vm.memory, vm.registers[current_opcode(vm).source_pointer])
                /\ vm'.memory = vm.memory
          /\ current_opcode(vm).op = "Store" =>
                \A a \in Addresses :
                    Cell(vm'.memory, a) =
                        IF a = vm.registers[current_opcode(vm).destination_pointer]
                        THEN vm.registers[current_opcode(vm).source]
                        ELSE Cell(vm.memory, a)
          /\ (at_answered_call(vm) /\ result_accepted(vm)
              /\ current_opcode(vm).destinations[1].kind = "HeapArray") =>
                \A a \in Addresses \ WrittenRange :
                    Cell(vm'.memory, a) = Cell(vm.memory, a)
      ]_vars

\* the Store at address 3 of an empty memory has run and the cell was
\* loaded back: the memory holds three zero cells and the stored value
C32_Witness ==
    /\ vm.bytecode = load_store_program
    /\ vm.memory = <<0, 0, 0, 6>>
    /\ vm.registers[2] = 0
    /\ vm.registers[1] = 6
    /\ vm.status = VMFinished

\* ------------------------------------------------------------------ C33
\* the step executes a ForeignCall whose first destination is a HeapVector
\* and whose result has an Array as its first output
VectorResultStep ==
    /\ IsOpcodeStep
    /\ at_answered_call(vm)
    /\ current_opcode(vm).destinations[1].kind = "HeapVector"
    /\ current_values(vm) # <<>>
    /\ current_values(vm)[1].kind = "Array"

\* C33: for a HeapVector(ptr_reg, size_reg) destination with an available
\* Array(vs) output, the ForeignCall step sets R[size_reg] to the length of
\* vs and writes vs to memory starting at address R[ptr_reg], whatever the
\* previous value of R[size_reg].
C33_HeapVectorResult ==
    [][VectorResultStep =>
          /\ vm'.registers[current_opcode(vm).destinations[1].b] =
                 Len(current_values(vm)[1].values)
          /\ \A j \in 1 .. Len(current_values(vm)[1].values) :
                Cell(vm'.memory,
                     vm.registers[current_opcode(vm).destinations[1].a] + j - 1)
                    = current_values(vm)[1].values[j]
      ]_vars

\* the size register held 9 and the vector [1, 2] was written at address 3
C33_Witness ==
    /\ vm.bytecode = vector_program
    /\ vm.foreign_call_counter = 1
    /\ vm.registers[0] = 3
    /\ vm.registers[1] = 2
    /\ Len(vm.memory) = 5
    /\ vm.memory[4] = 1
    /\ vm.memory[5] = 2

\* ------------------------------------------------------------------ C34
\* the block opcodes of the circuit
BlockOpcodes == {circuit[k].opcode : k \in {j \in 1 .. Len(circuit) :
                                              uses_block_solver(circuit[j].opcode)}}

\* the block opcodes a round of the session has visited
VisitedBlocks ==
    {circuit[v.id].opcode.block.id :
        v \in {Flatten(rounds)[k] : k \in {j \in 1 .. Len(Flatten(rounds)) :
                   uses_block_solver(circuit[Flatten(rounds)[j].id].opcode)}}}

\* r is what BlockSolver::solve gave from solver: a Stalled call has left
\* the solver as it was, and the entry a call stopped at stalls again
\* without moving the position
StalledEntryKept(solver, trace, r) ==
    /\ r.resolution.tag = "Stalled" => r.solver = solver
    /\ r.resolution.tag \in {"Stalled", "InProgress"} =>
          /\ r.solver.solved_operations < Len(trace)
          /\ BlockSolver_solve(r.solver, r.witness_map, trace).solver = r.solver
          /\ BlockSolver_solve(r.solver, r.witness_map, trace).resolution.tag = "Stalled"

IndexUnder(entry, m) ==
    IF get_value(entry.index, m).ok THEN get_value(entry.index, m).value ELSE NoValue

\* the positions before k of the writes to the index that entry k has
WritesBefore(trace, k, m) ==
    {j \in 1 .. k - 1 : /\ trace[j].operation = 1
                        /\ IndexUnder(trace[j], m) = IndexUnder(trace[k], m)}

\* the latest of a non-empty set of positions
Latest(positions) == CHOOSE j \in positions : \A i \in positions : i <= j

\* the read at position k has the value of the latest write before it
ReadsLatestWrite(trace, k, m) ==
    /\ WritesBefore(trace, k, m) # {}
    /\ get_value(trace[k].value, m).ok
    /\ get_value(trace[k].value, m) =
          get_value(trace[Latest(WritesBefore(trace, k, m))].value, m)

\* C35: memory-block consistency.  Under the map the solver leaves, every
\* read it has processed has the value of the latest preceding write to
\* the same index; a read into an unassigned witness assigns it (the trace
\* [write(0, 4), read(0, w3)] gives M[w3] = 4); and the solver stops with
\* UnsatisfiedConstraint at a read of an index nothing before it wrote to.
C35_ReadAfterWrite ==
    probe.fn = "block_solve" =>
        /\ \A k \in 1 .. probe.solver.solved_operations :
              probe.trace[k].operation = 0 =>
                  ReadsLatestWrite(probe.trace, k, probe.witness_map)
        /\ (/\ probe.trace = <<write_0_4, read_0_w3>>
            /\ probe.initial_witness[3] = NoValue) =>
              /\ probe.resolution = ResSolved
              /\ probe.witness_map[3] = 4
        /\ \A k \in 1 .. Len(probe.trace) :
              (/\ k = probe.solver.solved_operations + 1
               /\ probe.trace[k].operation = 0
               /\ IndexUnder(probe.trace[k], probe.witness_map) # NoValue
               /\ WritesBefore(probe.trace, k, probe.witness_map) = {}) =>
                  probe.resolution = ResErr(UnsatisfiedConstrain)

\* the second write to index 0 is the one a later read into w3 sees
C35_Witness ==
    /\ probe.fn = "block_solve"
    /\ probe.trace = <<write_0_4, write_0_5, read_0_w3>>
    /\ probe.initial_witness[3] = NoValue
    /\ probe.witness_map[3] = 5
    /\ probe.resolution = ResSolved

\* ------------------------------------------------------------------ C36
\* e, the expression after substituting the known witnesses, is a * w + c
\* with a non-zero a
LinearInOneUnknown(e) ==
    Len(e.linear_combinations) = 1 /\ e.linear_combinations[1].coef # 0

\* after is before with the one unknown of e assigned the root of e
AssignsRoot(e, before, after) ==
    /\ after[e.linear_combinations[1].w] \in Field
    /\ FAdd(FMul(e.linear_combinations[1].coef, after[e.linear_combinations[1].w]),
            e.q_c) = 0
    /\ \A w \in Witnesses \ {e.linear_combinations[1].w} : after[w] = before[w]

RECURSIVE be_u128(_)
\* the number whose big-endian bytes are given, as a field element: the
\* last byte counts once, the ones before it 256 times as much
be_u128(bytes) ==
    IF bytes = <<>> THEN 0
    ELSE (bytes[Len(bytes)] + 256 * be_u128(SubSeq(bytes, 1, Len(bytes) - 1)))
             % FieldModulus

\* C37: split law.  A legacy hash call with a number of output witnesses
\* other than two does not return; one with two gives output 0 the field
\* element read big-endian from bytes 0..16 of the 32-byte digest and
\* output 1 the one read from bytes 16..32, and changes no other witness.
C37_SplitLaw ==
    probe.fn = "legacy_hash" =>
        /\ Len(probe.gadget_call.outputs) # 2 => probe.panic
        /\ ~probe.panic =>
              /\ Len(probe.result) = 32
              /\ probe.witness_map[probe.gadget_call.outputs[1]]
                    = be_u128(SubSeq(probe.result, 1, 16))
              /\ probe.witness_map[probe.gadget_call.outputs[2]]
                    = be_u128(SubSeq(probe.result, 17, 32))
              /\ \A w \in Witnesses :
                    (w # probe.gadget_call.outputs[1] /\ w # probe.gadget_call.outputs[2])
                        => probe.witness_map[w] = probe.initial_witness[w]

\* a digest whose halves are different field elements has been split
C37_Witness ==
    /\ probe.fn = "legacy_hash"
    /\ ~probe.panic
    /\ be_u128(SubSeq(probe.result, 1, 16)) # be_u128(SubSeq(probe.result, 17, 32))
    /\ probe.witness_map[probe.gadget_call.outputs[1]]
          # probe.witness_map[probe.gadget_call.outputs[2]]

\* ------------------------------------------------------------------ C38
\* C38: in every reachable VM state foreign_call_counter is at most the
\* number of foreign call results the caller has supplied: the VM never
\* consumes a result it has not been given.
C38_CounterWithinResults ==
    vm.foreign_call_counter <= Len(vm.foreign_call_results)

\* the VM has consumed the only result it was given and stands at a second
\* ForeignCall, waiting
C38_Witness ==
    /\ vm_call # "new"
    /\ vm.foreign_call_counter = 1
    /\ Len(vm.foreign_call_results) = 1
    /\ vm.status.tag = "ForeignCallWait"
    /\ at_unanswered_call(vm)

\* ------------------------------------------------------------------ C39
\* the result the VM is about to use is rejected by one of the two checks
\* of the ForeignCall arm (number of outputs, size of a HeapArray)
result_rejected(v) == at_answered_call(v) /\ result_mismatch(v)

\* C39: when a ForeignCall opcode rejects its result (number of outputs or
\* size of a HeapArray), the registers and the memory of the VM are what
\* they were before the step: no destination has been written.
C39_RejectedResultWritesNothing ==
    [][(vm_call' = "process_opcode" /\ vm' # vm /\ result_rejected(vm)) =>
          /\ vm'.registers = vm.registers
          /\ vm'.memory = vm.memory]_vars

\* ------------------------------------------------------------------ C40
\* the opcodes constraining outputs[i] to equal result[i], one per output
OutputGates(outputs, result) ==
    [i \in 1 .. Len(outputs) |-> output_gate(outputs[i], result[i])]

\* C40: for every number of outputs the keccak256 fallback returns, and
\* the list it returns holds every opcode generated while decomposing and
\* padding the input (the pad-byte opcodes and those of the final xor),
\* followed by one Arithmetic opcode per output witness that constrains
\* outputs[i] to equal result[i]; the witness counter it returns is not
\* smaller than the one passed in.
C40_KeccakFallbackOpcodes ==
    probe.fn = "keccak256" =>
        /\ ~probe.returned.panic
        /\ Len(probe.returned.result) >= Len(probe.outputs)
        /\ probe.returned.new_gates =
              probe.returned.generated
                  \o OutputGates(probe.outputs, probe.returned.result)
        /\ probe.returned.num_witness >= probe.num_witness

====
